---------------------------- MODULE Spec2Model ----------------------------
(***************************************************************************)
(* Suffolk Law navigator: the scraper scripts' text pipeline (cleanText,   *)
(* generateSummary, the page-extraction functions) and their batch driver. *)
(*                                                                         *)
(* Strings.  A JavaScript string is held run-length encoded: a sequence of *)
(* runs [c |-> character, n |-> count] with n >= 1 and no two adjacent     *)
(* runs of the same character.  Every string has exactly one such form, so *)
(* equality of forms is equality of strings, and strings of 12,000         *)
(* characters stay small.  The operators below compute the JavaScript      *)
(* string methods on that form, character for character.                   *)
(***************************************************************************)
EXTENDS Bags, Integers, Sequences, FiniteSets, TLC

\* JavaScript's null (a record, so that it compares with the records it stands in for).
NULL == [null |-> TRUE]

\* The characters /\s/ matches among those the model uses.
WS == {" ", "\t", "\n"}

Run(ch, k) == [c |-> ch, n |-> k]

\* The canonical form of a sequence of runs: empty runs dropped, adjacent
\* runs of one character merged.
RECURSIVE Norm(_)
Norm(r) ==
  IF r = <<>> THEN <<>>
  ELSE LET h == Head(r)
           t == Norm(Tail(r))
       IN  IF h.n = 0 THEN t
           ELSE IF t # <<>> /\ Head(t).c = h.c
                THEN <<Run(h.c, h.n + Head(t).n)>> \o Tail(t)
                ELSE <<h>> \o t

\* ch repeated k times.
Rep(ch, k) == IF k <= 0 THEN <<>> ELSE <<Run(ch, k)>>

\* a + b
Concat(a, b) == Norm(a \o b)

\* s.length
RECURSIVE StrLen(_)
StrLen(s) == IF s = <<>> THEN 0 ELSE Head(s).n + StrLen(Tail(s))

\* s.substring(0, k): the first k characters (all of s when it is shorter,
\* none when k <= 0).
RECURSIVE Substring0(_, _)
Substring0(s, k) ==
  IF k <= 0 \/ s = <<>> THEN <<>>
  ELSE LET h == Head(s)
       IN  IF h.n >= k THEN <<Run(h.c, k)>>
           ELSE <<h>> \o Substring0(Tail(s), k - h.n)

\* s.lastIndexOf(ch): 0-based index of the last ch, -1 when there is none.
\* off is the index of the first character of s in the whole string.
RECURSIVE LastIndexFrom(_, _, _)
LastIndexFrom(s, ch, off) ==
  IF s = <<>> THEN -1
  ELSE LET h == Head(s)
           later == LastIndexFrom(Tail(s), ch, off + h.n)
       IN  IF later # -1 THEN later
           ELSE IF h.c = ch THEN off + h.n - 1 ELSE -1

LastIndexOf(s, ch) == LastIndexFrom(s, ch, 0)

\* Leading whitespace removed.
RECURSIVE TrimStart(_)
TrimStart(s) ==
  IF s = <<>> THEN <<>>
  ELSE IF Head(s).c \in WS THEN TrimStart(Tail(s)) ELSE s

\* Trailing whitespace removed.
RECURSIVE TrimEnd(_)
TrimEnd(s) ==
  IF s = <<>> THEN <<>>
  ELSE IF s[Len(s)].c \in WS THEN TrimEnd(SubSeq(s, 1, Len(s) - 1)) ELSE s

\* s.trim()
Trim(s) == TrimEnd(TrimStart(s))

\* s.replace(/\s+/g, ' '): every maximal run of whitespace characters
\* becomes one space.
RECURSIVE ReplaceWsRuns(_)
ReplaceWsRuns(s) ==
  IF s = <<>> THEN <<>>
  ELSE IF Head(s).c \in WS
       THEN <<Run(" ", 1)>> \o ReplaceWsRuns(TrimStart(Tail(s)))
       ELSE <<Head(s)>> \o ReplaceWsRuns(Tail(s))

\* s.replace(/\t/g, ''): every tab removed.
RemoveTabs(s) == Norm(SelectSeq(s, LAMBDA r : r.c # "\t"))

\* s.replace(/\n+/g, '\n'): every maximal run of newlines becomes one.
ReplaceNewlineRuns(s) ==
  [i \in 1..Len(s) |-> IF s[i].c = "\n" THEN Run("\n", 1) ELSE s[i]]

\* cleanText with its .trim() left out.
cleanTextNoTrim(text) == RemoveTabs(ReplaceWsRuns(text))

\* cleanText of scrape-policies-v2.js, scrape-missing-pages.js, the crawler
\* and the library scraper.
cleanText(text) == Trim(RemoveTabs(ReplaceWsRuns(text)))

\* cleanText of the student-policies scraper and of the section scraper.
cleanTextNewline(text) == Trim(ReplaceNewlineRuns(ReplaceWsRuns(text)))

\* generateSummary's default maxLength.
DefaultMaxLength == 200

\* The suffix of a hard-cut summary.
Ellipsis == Rep(".", 3)

\* generateSummary cutting at maxLength instead of maxLength - 3.
generateSummaryNoRoom(content, maxLength) ==
  LET cleaned == Trim(content)
  IN  IF StrLen(cleaned) <= maxLength THEN cleaned
      ELSE Concat(Substring0(cleaned, maxLength), Ellipsis)

\* generateSummary cutting at the last period of the first maxLength
\* characters when that period lies beyond 70% of maxLength.
generateSummaryAtSentence(content, maxLength) ==
  LET cleaned == Trim(content)
      truncated == Substring0(cleaned, maxLength)
      lastPeriod == LastIndexOf(truncated, ".")
  IN  IF StrLen(cleaned) <= maxLength THEN cleaned
      ELSE IF lastPeriod * 10 > maxLength * 7
           THEN Substring0(truncated, lastPeriod + 1)
           ELSE Concat(Substring0(truncated, maxLength - 3), Ellipsis)

\* generateSummary of scrape-policies-v2.js, scrape-missing-pages.js, the
\* crawler and the library scraper.
generateSummary(content, maxLength) ==
  LET cleaned == Trim(content)
  IN  IF StrLen(cleaned) <= maxLength THEN cleaned
      ELSE Concat(Substring0(cleaned, maxLength - 3), Ellipsis)

\* generateSummaryPeriod taking the first period instead of the last.
generateSummaryFirstPeriod(content, maxLength) ==
  LET cleaned == Trim(content)
      truncated == Substring0(cleaned, maxLength)
      firstPeriod ==
        IF \E i \in 1..Len(truncated) : truncated[i].c = "."
        THEN StrLen(SubSeq(truncated, 1,
               (CHOOSE i \in 1..Len(truncated) :
                  /\ truncated[i].c = "."
                  /\ \A j \in 1..(i - 1) : truncated[j].c # ".") - 1))
        ELSE -1
  IN  IF StrLen(cleaned) <= maxLength THEN cleaned
      ELSE IF firstPeriod * 10 > maxLength * 7
           THEN Substring0(truncated, firstPeriod + 1)
           ELSE Concat(Substring0(truncated, maxLength - 3), Ellipsis)

\* generateSummary of the student-policies scraper and of the section
\* scraper.  lastPeriod > maxLength * 0.7 is compared in integers
\* (lastPeriod * 10 > maxLength * 7): for maxLength = 200, the only value
\* passed, the product 200 * 0.7 is the double 140 exactly.
generateSummaryPeriod(content, maxLength) ==
  LET cleaned == Trim(content)
      truncated == Substring0(cleaned, maxLength)
      lastPeriod == LastIndexOf(truncated, ".")
  IN  IF StrLen(cleaned) <= maxLength THEN cleaned
      ELSE IF lastPeriod * 10 > maxLength * 7
           THEN Substring0(truncated, lastPeriod + 1)
           ELSE Concat(Substring0(truncated, maxLength - 3), Ellipsis)

(***************************************************************************)
(* Documents.  What cheerio.load returns is held as the sequence of the    *)
(* body's elements in document order; an element is                        *)
(*   [tag, cls, id, parent, text]                                          *)
(* where parent is the index of its parent element (0: the body) and text  *)
(* is its own text, which precedes its children's.  A selector is          *)
(* [kind, name] with kind "tag", "class" or "id".                          *)
(***************************************************************************)
TagSel(name) == [kind |-> "tag", name |-> name]
ClassSel(name) == [kind |-> "class", name |-> name]
IdSel(name) == [kind |-> "id", name |-> name]

Matches(el, sel) ==
  CASE sel.kind = "tag" -> el.tag = sel.name
    [] sel.kind = "class" -> el.cls = sel.name
    [] sel.kind = "id" -> el.id = sel.name

MatchesAny(el, sels) == \E sel \in sels : Matches(el, sel)

\* Element j is element i or lies inside it.
RECURSIVE IsWithin(_, _, _)
IsWithin(doc, j, i) ==
  \/ j = i
  \/ doc[j].parent # 0 /\ IsWithin(doc, doc[j].parent, i)

\* $(sels).remove(): the elements left, as a set of indices; an element
\* goes with every element it lies inside.
Remove(doc, sels) ==
  {j \in 1..Len(doc) :
     ~\E i \in 1..Len(doc) : MatchesAny(doc[i], sels) /\ IsWithin(doc, j, i)}

\* The indices of set S in document order.
InOrder(doc, S) == SelectSeq([i \in 1..Len(doc) |-> i], LAMBDA i : i \in S)

\* $(sel1, sel2, ...): the elements left that match one of sels, in
\* document order.
Query(doc, alive, sels) ==
  InOrder(doc, {i \in alive : MatchesAny(doc[i], sels)})

\* element.find(sels): the elements inside element i that match.
Find(doc, alive, i, sels) ==
  InOrder(doc, {j \in alive : j # i /\ IsWithin(doc, j, i)
                               /\ MatchesAny(doc[j], sels)})

\* The text of element i: its own and that of the elements inside it, in
\* document order.
RECURSIVE TextFrom(_, _, _, _)
TextFrom(doc, alive, i, j) ==
  IF j > Len(doc) THEN <<>>
  ELSE Concat(IF j \in alive /\ IsWithin(doc, j, i) THEN doc[j].text ELSE <<>>,
              TextFrom(doc, alive, i, j + 1))

\* elements.text(): the texts of the matched elements, one after another.
RECURSIVE ElementsText(_, _, _)
ElementsText(doc, alive, elements) ==
  IF elements = <<>> THEN <<>>
  ELSE Concat(TextFrom(doc, alive, Head(elements), Head(elements)),
              ElementsText(doc, alive, Tail(elements)))

(***************************************************************************)
(* The four loop-based scrapePage functions.  They differ in what they     *)
(* remove, in their selector list, in their minimum and maximum lengths    *)
(* and in what they put after a fallback paragraph.                        *)
(***************************************************************************)
LoopScrapers == {"v2", "missing", "crawler", "library"}

CommonNoise ==
  {TagSel("script"), TagSel("style"), TagSel("nav"), TagSel("footer"),
   TagSel("header"), ClassSel("nav"), ClassSel("menu")}

\* Nothing removed.
NoNoise(v) == {}

NoiseSelectors(v) ==
  IF v \in {"v2", "missing"} THEN CommonNoise
  ELSE CommonNoise \cup {ClassSel("breadcrumb")}

Selectors(v) ==
  CASE v = "v2" ->
         <<ClassSel("content"), ClassSel("main-content"), TagSel("main"),
           TagSel("article"), ClassSel("policy-content"), IdSel("content"),
           ClassSel("page-content")>>
    [] v = "missing" ->
         <<ClassSel("content"), ClassSel("main-content"), TagSel("main"),
           TagSel("article"), ClassSel("page-content"), IdSel("content")>>
    [] OTHER ->
         <<TagSel("main"), TagSel("article"), ClassSel("content"),
           ClassSel("main-content"), ClassSel("page-content"),
           IdSel("content")>>

\* The minimum content length of the loop-based scrapers.
MinLength(v) == IF v \in {"v2", "missing"} THEN 100 ELSE 200

\* The per-paragraph floor of the fallback.
ParagraphFloor == 30

\* What follows each fallback paragraph.
Separator(v) == IF v \in {"v2", "missing"} THEN Rep("\n", 2) ELSE Rep(" ", 1)

\* The maximum stored content length.
MaxContent(v) ==
  CASE v \in {"v2", "missing"} -> 10000
    [] v \in {"crawler", "library"} -> 12000
    [] v = "student" -> 8000

\* The selector loop from selector k on: the first selector with a matched
\* element and cleaned text longer than the minimum wins.
RECURSIVE TrySelectors(_, _, _, _)
TrySelectors(v, doc, alive, k) ==
  IF k > Len(Selectors(v))
  THEN [found |-> FALSE, content |-> <<>>, selector |-> 0]
  ELSE LET element == Query(doc, alive, {Selectors(v)[k]})
           text == cleanText(ElementsText(doc, alive, element))
       IN  IF Len(element) > 0 /\ StrLen(text) > MinLength(v)
           THEN [found |-> TRUE, content |-> text, selector |-> k]
           ELSE TrySelectors(v, doc, alive, k + 1)

\* The fallback's each(): every paragraph whose cleaned text is longer than
\* the floor is appended to content, followed by the separator.
RECURSIVE AppendParagraphs(_, _, _, _, _)
AppendParagraphs(v, doc, alive, ps, content) ==
  IF ps = <<>> THEN content
  ELSE LET text == cleanText(TextFrom(doc, alive, Head(ps), Head(ps)))
       IN  AppendParagraphs(v, doc, alive, Tail(ps),
             IF StrLen(text) > ParagraphFloor
             THEN Concat(Concat(content, text), Separator(v))
             ELSE content)

\* The fallback running whatever the selector loop found.
FallbackAlways(v, tried) == TRUE

\* Whether the fallback runs: scrape-policies-v2.js asks its foundContent
\* flag, the others ask the content.
FallbackRuns(v, tried) ==
  IF v = "v2" THEN ~tried.found
  ELSE tried.content = <<>> \/ StrLen(tried.content) < MinLength(v)

\* ExtractContent with a fallback that takes list items as well.
ExtractContentListItems(v, doc) ==
  LET alive == Remove(doc, NoiseSelectors(v))
      tried == TrySelectors(v, doc, alive, 1)
      fallback == FallbackRuns(v, tried)
      content ==
        IF fallback
        THEN AppendParagraphs(v, doc, alive,
                              Query(doc, alive, {TagSel("p"), TagSel("li")}),
                              IF v \in {"crawler", "library"} THEN <<>>
                              ELSE tried.content)
        ELSE tried.content
  IN  [content |-> Trim(content), fallback |-> fallback,
       selector |-> tried.selector]

\* scrapePage up to its final trim: the content, and which tier made it.
ExtractContent(v, doc) ==
  LET alive == Remove(doc, NoiseSelectors(v))
      tried == TrySelectors(v, doc, alive, 1)
      fallback == FallbackRuns(v, tried)
      content ==
        IF fallback
        THEN AppendParagraphs(v, doc, alive, Query(doc, alive, {TagSel("p")}),
                              IF v \in {"crawler", "library"} THEN <<>>
                              ELSE tried.content)
        ELSE tried.content
  IN  [content |-> Trim(content), fallback |-> fallback,
       selector |-> tried.selector]

\* scrapePage rejecting content of exactly the minimum length as well.
scrapePageStrict(v, doc, url, title) ==
  LET content == ExtractContent(v, doc).content
  IN  IF StrLen(content) <= MinLength(v) THEN NULL
      ELSE [title |-> title,
            content |-> Substring0(content, MaxContent(v)),
            summary |-> generateSummary(content, DefaultMaxLength),
            source_url |-> url,
            source_name |-> title]

\* scrapePage without its length test.
scrapePageAnyLength(v, doc, url, title) ==
  LET content == ExtractContent(v, doc).content
  IN  [title |-> title,
       content |-> Substring0(content, MaxContent(v)),
       summary |-> generateSummary(content, DefaultMaxLength),
       source_url |-> url,
       source_name |-> title]

\* scrapePage storing the content whole.
scrapePageUncut(v, doc, url, title) ==
  LET content == ExtractContent(v, doc).content
  IN  IF StrLen(content) < MinLength(v) THEN NULL
      ELSE [title |-> title,
            content |-> content,
            summary |-> generateSummary(content, DefaultMaxLength),
            source_url |-> url,
            source_name |-> title]

\* The rest of scrapePage: null for content shorter than the minimum,
\* otherwise the record.
scrapePage(v, doc, url, title) ==
  LET content == ExtractContent(v, doc).content
  IN  IF StrLen(content) < MinLength(v) THEN NULL
      ELSE [title |-> title,
            content |-> Substring0(content, MaxContent(v)),
            summary |-> generateSummary(content, DefaultMaxLength),
            source_url |-> url,
            source_name |-> title]

(***************************************************************************)
(* scrapePolicyPage of the student-policies scraper ("student"): nothing   *)
(* is removed; the container is the first element matching one of the      *)
(* selectors; the content is made of the paragraphs and list items inside. *)
(***************************************************************************)
PolicyContainers ==
  {TagSel("main"), ClassSel("main-content"), TagSel("article"),
   ClassSel("content"), ClassSel("policy-content")}

\* The per-node floor of scrapePolicyPage.
PolicyNodeFloor == 20

\* The minimum content length of scrapePolicyPage.
PolicyMinLength == 50

AllOf(doc) == 1..Len(doc)

\* $('main, .main-content, ...').first(): the first element, in document
\* order, that matches one of the selectors; 0 when none does.
FirstContainer(doc, containers) ==
  LET matched == Query(doc, AllOf(doc), containers)
  IN  IF Len(matched) > 0 THEN Head(matched) ELSE 0

RECURSIVE AppendPolicyNodes(_, _, _)
AppendPolicyNodes(doc, nodes, content) ==
  IF nodes = <<>> THEN content
  ELSE LET text == cleanTextNewline(TextFrom(doc, AllOf(doc), Head(nodes),
                                             Head(nodes)))
       IN  AppendPolicyNodes(doc, Tail(nodes),
             IF text # <<>> /\ StrLen(text) > PolicyNodeFloor
             THEN Concat(Concat(content, text), Rep("\n", 2))
             ELSE content)

PolicyContent(doc) ==
  LET mainContent == Query(doc, AllOf(doc), PolicyContainers)
  IN  Trim(IF Len(mainContent) > 0
           THEN AppendPolicyNodes(doc,
                  Find(doc, AllOf(doc), Head(mainContent),
                       {TagSel("p"), TagSel("li")}),
                  <<>>)
           ELSE <<>>)

scrapePolicyPage(doc, url, title) ==
  LET content == PolicyContent(doc)
  IN  IF StrLen(content) < PolicyMinLength THEN NULL
      ELSE [title |-> title,
            content |-> Substring0(content, MaxContent("student")),
            summary |-> generateSummaryPeriod(content, DefaultMaxLength),
            source_url |-> url,
            source_name |-> title]

(***************************************************************************)
(* scrapePage of the section scraper ("section"): one record per h2/h3     *)
(* header of the container, made of the header's following siblings up to  *)
(* the next header.  It returns an array of records.                       *)
(***************************************************************************)
SectionContainers ==
  {TagSel("main"), ClassSel("main-content"), TagSel("article"),
   ClassSel("content")}

Headers == {TagSel("h2"), TagSel("h3")}

SectionBlocks == {TagSel("p"), TagSel("ul"), TagSel("ol"), TagSel("div")}

\* A section's content must be longer than this.
SectionMinLength == 100

\* A section's title must not be shorter than this.
SectionMinTitle == 5

\* $el.next(): the index of the next sibling of element i, 0 when none.
NextSibling(doc, i) ==
  IF \E j \in (i + 1)..Len(doc) : doc[j].parent = doc[i].parent
  THEN CHOOSE j \in (i + 1)..Len(doc) :
         /\ doc[j].parent = doc[i].parent
         /\ \A k \in (i + 1)..(j - 1) : doc[k].parent # doc[i].parent
  ELSE 0

\* The while loop over the siblings from element next on.
RECURSIVE SectionContent(_, _, _)
SectionContent(doc, next, content) ==
  IF next = 0 \/ MatchesAny(doc[next], Headers) THEN content
  ELSE LET text == cleanTextNewline(TextFrom(doc, AllOf(doc), next, next))
       IN  SectionContent(doc, NextSibling(doc, next),
             IF MatchesAny(doc[next], SectionBlocks) /\ text # <<>>
             THEN Concat(Concat(content, text), Rep("\n", 2))
             ELSE content)

\* The each() over the headers: i is the header's 0-based position among
\* the headers found.
RECURSIVE SectionPolicies(_, _, _, _, _)
SectionPolicies(doc, headers, i, url, name) ==
  IF i >= Len(headers) THEN <<>>
  ELSE LET header == headers[i + 1]
           title == cleanTextNewline(TextFrom(doc, AllOf(doc), header, header))
           content == Trim(SectionContent(doc, NextSibling(doc, header), <<>>))
       IN  (IF title = <<>> \/ StrLen(title) < SectionMinTitle THEN <<>>
            ELSE IF StrLen(content) > SectionMinLength
                 THEN <<[index |-> i,
                         title |-> title,
                         content |-> content,
                         summary |-> generateSummaryPeriod(content,
                                                           DefaultMaxLength),
                         source_url |-> url,
                         source_name |-> name]>>
                 ELSE <<>>)
           \o SectionPolicies(doc, headers, i + 1, url, name)

scrapeSections(doc, url, name) ==
  LET mainContent == Query(doc, AllOf(doc), SectionContainers)
  IN  IF Len(mainContent) = 0 THEN <<>>
      ELSE SectionPolicies(doc,
             Find(doc, AllOf(doc), Head(mainContent), Headers), 0, url, name)

(***************************************************************************)
(* Inputs of the cleanText check: every string of at most MaxTextLen       *)
(* characters over TextAlphabet, and the example "Hello\n\n\tworld   !".   *)
(***************************************************************************)
MaxTextLen == 5
TextAlphabet == {"x", " ", "\t", "\n"}

CharSeqs(k) == UNION {[1..m -> TextAlphabet] : m \in 0..k}

FromChars(cs) == Norm([i \in 1..Len(cs) |-> Run(cs[i], 1)])

RECURSIVE ToChars(_)
ToChars(s) ==
  IF s = <<>> THEN <<>>
  ELSE [i \in 1..Head(s).n |-> Head(s).c] \o ToChars(Tail(s))

HelloWorld ==
  FromChars(<<"H", "e", "l", "l", "o", "\n", "\n", "\t",
              "w", "o", "r", "l", "d", " ", " ", " ", "!">>)

TextInputs == {FromChars(cs) : cs \in CharSeqs(MaxTextLen)} \cup {HelloWorld}

(***************************************************************************)
(* Inputs of the generateSummary check.  The content a page yields before  *)
(* its final trim: optional whitespace, then a body of "x" with up to two  *)
(* periods, then optional whitespace.  Body lengths are the short ones,    *)
(* every length within SummaryMargin of maxLength, and 300; the last       *)
(* period is at any index, an earlier one at one of EarlierPeriods.  Also  *)
(* the two examples: "A. " 100 times, and 500 "x".                         *)
(***************************************************************************)
SummaryMargin == 3

BodyLengths ==
  (0..2) \cup ((DefaultMaxLength - SummaryMargin)..(DefaultMaxLength + SummaryMargin))
         \cup {300}

EarlierPeriods == {0, 140, 141, 150}

\* "x" len times, with "." at the 0-based indices p and q (-1: no period).
Body(len, p, q) ==
  IF q = -1 THEN Rep("x", len)
  ELSE IF p = -1
       THEN Norm(<<Run("x", q), Run(".", 1), Run("x", len - q - 1)>>)
       ELSE Norm(<<Run("x", p), Run(".", 1), Run("x", q - p - 1),
                   Run(".", 1), Run("x", len - q - 1)>>)

Bodies ==
  {Body(len, p, q) :
     <<len, p, q>> \in {t \in BodyLengths \X ({-1} \cup EarlierPeriods)
                                         \X (-1..(DefaultMaxLength + SummaryMargin)
                                               \cup {250}) :
                          /\ t[3] < t[1]
                          /\ t[2] < t[3]}}

ADotExample == [i \in 1..300 |-> Run(<<"A", ".", " ">>[((i - 1) % 3) + 1], 1)]

Paddings == {<<>>, Rep(" ", 1), <<Run("\n", 2), Run("\t", 1)>>}

SummaryInputs ==
  {lead \o body \o trail :
     <<lead, body, trail>> \in Paddings \X Bodies \X {<<>>, Rep("\n", 2)}}
  \cup {ADotExample, Rep("x", 500)}

(***************************************************************************)
(* Inputs of the page-extraction check: every document of at most MaxNodes *)
(* elements drawn from a palette chosen around the scraper's own lengths   *)
(* (m: its minimum content length, M: its maximum, f: its per-node floor). *)
(* The text of a nav element is made of the letter n and that of a         *)
(* breadcrumb of the letter b, which no other text holds.                  *)
(* Paragraphs and headers hold no elements, as in parsed HTML.             *)
(***************************************************************************)
MaxNodes == 3

Scrapers == LoopScrapers \cup {"student", "section"}

X(n) == Rep("x", n)

\* A text of n + 5 characters that cleans to n characters: x..x y..y with
\* whitespace around and between.
Padded(n) ==
  <<Run(" ", 1), Run("x", n - 12), Run("\n", 2), Run("\t", 1),
    Run("y", 11), Run(" ", 1)>>

El(tag, cls, id, txt) == [tag |-> tag, cls |-> cls, id |-> id, text |-> txt]

LoopPalette(m, M, f) ==
  {El("div", "content", "content", Padded(m + 1)),
   El("main", "", "", X(M + 1)), El("main", "", "", <<>>),
   El("p", "", "", X(f + 1)), El("p", "", "", X(f)),
   El("p", "", "", Padded(m)), El("p", "", "", X(m - 1)),
   El("li", "", "", X(m + 1)), El("nav", "", "", Rep("n", m + 1)),
   El("p", "breadcrumb", "", Rep("b", m + 1))}

StudentPalette(m, M, f) ==
  {El("main", "", "", X(m + 1)), El("main", "", "", <<>>),
   El("div", "content", "", <<>>), El("nav", "", "", Rep("n", f + 1)),
   El("p", "", "", X(f + 1)), El("p", "", "", X(f)),
   El("p", "", "", Padded(m)), El("p", "", "", X(m - 1)),
   El("p", "", "", X(M + 1)), El("li", "", "", X(m + 1))}

SectionPalette(m, t) ==
  {El("main", "", "", <<>>), El("article", "", "", <<>>),
   El("h2", "", "", X(t)), El("h2", "", "", X(t - 1)),
   El("h3", "", "", Padded(t + 8)),
   El("p", "", "", X(m + 1)), El("p", "", "", X(m)),
   El("div", "", "", Padded(m - 50)), El("ul", "", "", X(49)),
   El("span", "", "", X(m + 1))}

Palette(v) ==
  CASE v \in LoopScrapers ->
         LoopPalette(MinLength(v), MaxContent(v), ParagraphFloor)
    [] v = "student" ->
         StudentPalette(PolicyMinLength, MaxContent(v), PolicyNodeFloor)
    [] v = "section" -> SectionPalette(SectionMinLength, SectionMinTitle)

LeafTags == {"p", "h2", "h3", "span"}

\* Element i - 1 is element a or lies inside it, by the parent vector ps.
RECURSIVE Encloses(_, _, _)
Encloses(ps, a, j) == j = a \/ (j # 0 /\ ps[j] # 0 /\ Encloses(ps, a, ps[j]))

\* The parent vectors of n elements in document order.
ParentVectors(n) ==
  {ps \in [1..n -> 0..(n - 1)] :
     \A i \in 1..n :
       /\ ps[i] < i
       /\ ps[i] = 0 \/ Encloses(ps, ps[i], i - 1)}

DocsOf(v, n) ==
  {[i \in 1..n |-> [tag |-> els[i].tag, cls |-> els[i].cls, id |-> els[i].id,
                    parent |-> ps[i], text |-> els[i].text]] :
     <<els, ps>> \in {t \in [1..n -> Palette(v)] \X ParentVectors(n) :
                       \A i \in 1..n :
                         t[2][i] # 0 => t[1][t[2][i]].tag \notin LeafTags}}

PageUrl == "https://www.suffolk.edu/law/page"
PageTitle == "Page"

VARIABLES
  text,        \* cleanText's argument
  cleaned,     \* NULL, or [collapse, newline]: what the two cleanText return
  extracted,   \* the content a page yielded, before its final trim
  content,     \* NULL, or the content after content = content.trim()
  summary,     \* NULL, or [simple, period]: what the two generateSummary return
  variant,     \* the scraper whose page-extraction function runs
  doc,         \* the document it is given
  accepted,    \* NULL, or the function's content variable at its length test
  returned,    \* NULL, or [value |-> what the function returned]
  driver,      \* the script whose scrapeAll runs
  pc,          \* where scrapeAll is
  idx,         \* the 1-based position in the URL list of the for loop
  fetched,     \* what each axios.get so far gave: a document or FetchError
  allPolicies, \* scrapeAll's array of records
  db,          \* the policies table: a set of rows, one per external_id
  urlsToVisit, \* the list the loop goes over; the crawler's queue
  visitedUrls, \* the crawler's set of urls taken off the queue
  currentUrl,  \* the url being scraped
  phase,       \* "main" while the library scraper is at its main page
  log,         \* the run's requests, responses, timers and saves, in order
  run,         \* the number of the run, which stands for its time
  counts,      \* the row counts the runs have reported
  web,         \* NULL, or what each url serves when the pages do not change
  app,         \* the server file whose routes run
  policiesTable,  \* the server's policies table: its rows
  qaInteractions, \* the server's qa_interactions table: the rows inserted
  handlers,    \* the requests being handled: id -> the handler's locals
  calls,       \* the queries, model calls and searches issued, in order
  sent,        \* the HTTP responses sent, in order
  proc         \* the server process: starting, listening or exited

cleanVars == <<text, cleaned>>
summaryVars == <<extracted, content, summary>>
extractVars == <<variant, doc, accepted, returned>>
batchVars ==
  <<driver, pc, idx, fetched, allPolicies, db, urlsToVisit, visitedUrls,
    currentUrl, phase, log, run, counts, web>>
serverVars ==
  <<app, policiesTable, qaInteractions, handlers, calls, sent, proc>>
vars == <<cleanVars, summaryVars, extractVars, batchVars, serverVars>>

IdleClean == text = <<>> /\ cleaned = NULL
IdleSummary == extracted = <<>> /\ content = NULL /\ summary = NULL
IdleExtract ==
  variant = "none" /\ doc = <<>> /\ accepted = NULL /\ returned = NULL
IdleBatch ==
  /\ driver = "none" /\ pc = "idle" /\ idx = 0
  /\ fetched = <<>> /\ allPolicies = <<>> /\ db = {}
  /\ urlsToVisit = <<>> /\ visitedUrls = {} /\ currentUrl = 0
  /\ phase = "idle" /\ log = <<>> /\ run = 0 /\ counts = <<>> /\ web = NULL
IdleServer ==
  /\ app = "none" /\ policiesTable = {} /\ qaInteractions = <<>>
  /\ handlers = <<>> /\ calls = <<>> /\ sent = <<>> /\ proc = "idle"

(***************************************************************************)
(* cleanText applied to one input.                                         *)
(***************************************************************************)
InitClean ==
  /\ text \in TextInputs
  /\ cleaned = NULL
  /\ IdleSummary
  /\ IdleExtract
  /\ IdleBatch
  /\ IdleServer

CleanStep ==
  /\ cleaned = NULL
  /\ cleaned' = [collapse |-> cleanText(text),
                 newline |-> cleanTextNewline(text)]
  /\ UNCHANGED <<text, summaryVars, extractVars, batchVars, serverVars>>

NextClean == CleanStep

SpecClean == InitClean /\ [][NextClean]_vars

(***************************************************************************)
(* generateSummary applied to one content, as its callers apply it: the    *)
(* content is trimmed (content = content.trim()) and then summarised with  *)
(* the default maxLength.                                                  *)
(***************************************************************************)
InitSummary ==
  /\ extracted \in SummaryInputs
  /\ content = NULL
  /\ summary = NULL
  /\ IdleClean
  /\ IdleExtract
  /\ IdleBatch
  /\ IdleServer

SummaryStep ==
  /\ summary = NULL
  /\ LET trimmed == Trim(extracted)
     IN  /\ content' = trimmed
         /\ summary' = [simple |-> generateSummary(trimmed, DefaultMaxLength),
                        period |-> generateSummaryPeriod(trimmed, DefaultMaxLength)]
  /\ UNCHANGED <<extracted, cleanVars, extractVars, batchVars, serverVars>>

NextSummary == SummaryStep

SpecSummary == InitSummary /\ [][NextSummary]_vars

(***************************************************************************)
(* A page-extraction function applied to one document.                     *)
(***************************************************************************)
InitExtract ==
  /\ variant \in Scrapers
  /\ \E n \in 0..MaxNodes : doc \in DocsOf(variant, n)
  /\ accepted = NULL
  /\ returned = NULL
  /\ IdleClean
  /\ IdleSummary
  /\ IdleBatch
  /\ IdleServer

ScrapePageStep ==
  /\ variant \in LoopScrapers
  /\ returned = NULL
  /\ accepted' = ExtractContent(variant, doc)
  /\ returned' = [value |-> scrapePage(variant, doc, PageUrl, PageTitle)]
  /\ UNCHANGED <<variant, doc, cleanVars, summaryVars, batchVars, serverVars>>

ScrapePolicyPageStep ==
  /\ variant = "student"
  /\ returned = NULL
  /\ accepted' = [content |-> PolicyContent(doc),
                   container |-> FirstContainer(doc, PolicyContainers)]
  /\ returned' = [value |-> scrapePolicyPage(doc, PageUrl, PageTitle)]
  /\ UNCHANGED <<variant, doc, cleanVars, summaryVars, batchVars, serverVars>>

ScrapeSectionsStep ==
  /\ variant = "section"
  /\ returned = NULL
  /\ accepted' = [content |-> <<>>,
                   container |-> FirstContainer(doc, SectionContainers)]
  /\ returned' = [value |-> scrapeSections(doc, PageUrl, PageTitle)]
  /\ UNCHANGED <<variant, doc, cleanVars, summaryVars, batchVars, serverVars>>

NextExtract == ScrapePageStep \/ ScrapePolicyPageStep \/ ScrapeSectionsStep

SpecExtract == InitExtract /\ [][NextExtract]_vars

(***************************************************************************)
(* The batch drivers.  Each script runs one async function to its end:     *)
(*   "v2", "missing"  scrapeAll over a literal list, the records saved     *)
(*                    together after the loop;                             *)
(*   "section"        the same, scrapePage returning an array of records;  *)
(*   "student"        getIndexPage, then scrapeAll over the links found,   *)
(*                    inside one try/catch;                                *)
(*   "library"        scrapeLibrary: the main page, then getLibraryLinks   *)
(*                    of the same page, then the links, each record saved  *)
(*                    at once;                                             *)
(*   "crawler"        crawl: the urlsToVisit queue and the visitedUrls     *)
(*                    set, each record saved at once.                      *)
(* There are NumUrls + 1 URLs: 0 is the site's listing page (the index     *)
(* page, the library's main page, the crawler's START_URL), the others are *)
(* the entries of the literal lists, cut to NumUrls.  The page at url u    *)
(* has title u, and the external_id made of a title, of a url or of a      *)
(* category and a position is written as a tuple (the titles and urls of   *)
(* the lists give distinct external_ids).  The limits of the source        *)
(* (20 links, 200 pages, links of the first 10 pages) are cut with the     *)
(* list.  An axios.get gives a document, or fails or times out; a listing  *)
(* gives the relevant hrefs of its anchors, in document order.             *)
(***************************************************************************)
NumUrls == 2

ListDrivers == {"v2", "missing"}

Drivers == ListDrivers \cup {"section", "student", "library", "crawler"}

\* Every script keeping its records until the loop is over.
EveryDriver == {"v2", "missing", "section", "student", "library", "crawler"}

\* The scripts that collect the records in allPolicies and save after the
\* loop.
BatchSavers == ListDrivers \cup {"section", "student"}

Urls == 0..NumUrls

START_URL == 0

\* linksToScrape = policyLinks.slice(0, 20), links.slice(0, 20): 20 in the
\* source.
PageLimit == NumUrls

\* maxPages: 200 in the source.
maxPages == NumUrls + 1

\* The crawler extracts links while visitedUrls.size <= 10: 10 in the
\* source, 1 here (the start page's links are read, later pages' are not).
LinkPages == 1

\* What an axios.get gave.
Response(d) == [ok |-> TRUE, doc |-> d]
FetchError == [ok |-> FALSE, doc |-> <<>>]

FetchedDocs(v) == DocsOf(v, 0) \cup DocsOf(v, 1)

\* An element of a document, under element parent.
Node(el, parent) ==
  [tag |-> el.tag, cls |-> el.cls, id |-> el.id, parent |-> parent,
   text |-> el.text]

\* A page each of the other scripts makes a record of.
GoodPage(v) ==
  CASE v \in LoopScrapers ->
         <<Node(El("main", "", "", X(MaxContent(v) + 1)), 0)>>
    [] v = "student" ->
         <<Node(El("main", "", "", <<>>), 0),
           Node(El("p", "", "", Padded(PolicyMinLength)), 1)>>
    [] v = "section" ->
         <<Node(El("main", "", "", <<>>), 0),
           Node(El("h2", "", "", X(SectionMinTitle)), 1),
           Node(El("p", "", "", X(SectionMinLength + 1)), 1)>>

\* The documents a page fetch can give.
Pages(v) == IF v \in ListDrivers THEN FetchedDocs(v) ELSE {<<>>, GoodPage(v)}

\* The hrefs a listing can give: up to PageLimit + 1 of them, repeats
\* included.
Anchors == UNION {[1..n -> Urls] : n \in 0..(PageLimit + 1)}

\* links.slice(0, 20)
Slice(links) == SubSeq(links, 1, IF Len(links) < PageLimit THEN Len(links)
                                  ELSE PageLimit)

\* INSERT without ON CONFLICT: the row is added.
Insert(v, table, row) == table \cup {row}

\* The links as they are, repeats included.
KeepAll(links, seen) == links

\* The links without the repeats of a url, in order of first occurrence (the
\* seen set of getLibraryLinks, the links set of extractLinks).
RECURSIVE Dedupe(_, _)
Dedupe(links, seen) ==
  IF links = <<>> THEN <<>>
  ELSE IF Head(links) \in seen THEN Dedupe(Tail(links), seen)
       ELSE <<Head(links)>> \o Dedupe(Tail(links), seen \cup {Head(links)})

\* The crawler's for loop over the links: a link neither visited nor queued
\* is pushed.
RECURSIVE PushLinks(_, _, _)
PushLinks(queue, visited, links) ==
  IF links = <<>> THEN queue
  ELSE PushLinks(IF Head(links) \notin visited
                    /\ ~\E i \in 1..Len(queue) : queue[i] = Head(links)
                 THEN Append(queue, Head(links)) ELSE queue,
                 visited, Tail(links))

\* The records a page yields, as a sequence: at most one, or the section
\* scraper's array.
Scrape(v, d, url) ==
  CASE v \in LoopScrapers ->
         LET policy == scrapePage(v, d, url, url)
         IN  IF policy = NULL THEN <<>> ELSE <<policy>>
    [] v = "student" ->
         LET policy == scrapePolicyPage(d, url, url)
         IN  IF policy = NULL THEN <<>> ELSE <<policy>>
    [] v = "section" -> scrapeSections(d, url, url)

\* external_id: 'policy-v2-' + title, 'page-' + title, 'policy-' + title,
\* 'crawl-' + url, 'library-' + url, category + '-' + i + '-v2'.
ExternalId(v, policy) ==
  CASE v \in {"v2", "missing", "student"} -> <<v, policy.title>>
    [] v \in {"crawler", "library"} -> <<v, policy.source_url>>
    [] v = "section" -> <<v, policy.source_url, policy.index>>

\* The row a record is inserted as at time now.
Row(v, policy, now) ==
  [external_id |-> ExternalId(v, policy),
   title |-> policy.title,
   content |-> policy.content,
   summary |-> policy.summary,
   source_url |-> policy.source_url,
   last_updated |-> now]

\* The columns each script's ON CONFLICT(external_id) DO UPDATE SET names,
\* besides last_updated.
UpdatedColumns(v) ==
  CASE v = "student" -> {"content", "summary"}
    [] v = "section" -> {"title", "content"}
    [] OTHER -> {"content"}

\* INSERT ... ON CONFLICT(external_id) DO UPDATE SET ..., last_updated =
\* CURRENT_TIMESTAMP
Upsert(v, table, row) ==
  IF \E old \in table : old.external_id = row.external_id
  THEN {IF old.external_id = row.external_id
        THEN [col \in DOMAIN old |->
                IF col \in UpdatedColumns(v) \cup {"last_updated"}
                THEN row[col] ELSE old[col]]
        ELSE old : old \in table}
  ELSE table \cup {row}

RECURSIVE UpsertAll(_, _, _, _)
UpsertAll(v, table, policies, now) ==
  IF policies = <<>> THEN table
  ELSE UpsertAll(v, Upsert(v, table, Row(v, Head(policies), now)),
                 Tail(policies), now)

\* The first url a script scrapes.
FirstUrl(v) == IF v \in {"library", "crawler"} THEN START_URL ELSE 1

\* A row an earlier run left for the first page the script scrapes.
StaleRow(v) ==
  [external_id |->
     ExternalId(v, [title |-> FirstUrl(v), source_url |-> FirstUrl(v),
                    index |-> 0]),
   title |-> FirstUrl(v), content |-> X(150), summary |-> X(150),
   source_url |-> FirstUrl(v), last_updated |-> 0]

\* The events of a run, in the log.
Get(url, what) ==
  [e |-> "get", url |-> url, what |-> what, back |-> FALSE]
Got(url, what, ok) ==
  [e |-> IF ok THEN "response" ELSE "error", url |-> url, what |-> what,
   back |-> FALSE]
\* A listing was read; back says that it links to a page already visited.
GotLinks(url, back) ==
  [e |-> "response", url |-> url, what |-> "links", back |-> back]
Timer == [e |-> "timer", url |-> -1, what |-> "delay", back |-> FALSE]
Saved(policy) ==
  [e |-> "save", url |-> policy.source_url, what |-> "row", back |-> FALSE]
Counted == [e |-> "count", url |-> -1, what |-> "rows", back |-> FALSE]

RECURSIVE SavedAll(_)
SavedAll(policies) ==
  IF policies = <<>> THEN <<>>
  ELSE <<Saved(Head(policies))>> \o SavedAll(Tail(policies))

\* The state a script starts a run in.
StartPc(v) == IF v = "student" THEN "links" ELSE "loop"

StartList(v) ==
  CASE v \in {"library", "crawler"} -> <<START_URL>>
    [] v = "student" -> <<>>
    [] OTHER -> [i \in 1..NumUrls |-> i]

StartPhase(v) == IF v = "library" THEN "main" ELSE "list"

InitBatch ==
  /\ driver \in Drivers
  /\ pc = StartPc(driver)
  /\ idx = 1
  /\ fetched = <<>>
  /\ allPolicies = <<>>
  /\ db \in {{}, {StaleRow(driver)}}
  /\ urlsToVisit = StartList(driver)
  /\ visitedUrls = {}
  /\ currentUrl = START_URL
  /\ phase = StartPhase(driver)
  /\ log = <<>>
  /\ run = 1
  /\ counts = <<>>
  /\ web = NULL
  /\ IdleClean
  /\ IdleSummary
  /\ IdleExtract
  /\ IdleServer

\* The last entry, whatever the position.
LastUrl(queue, i) == queue[Len(queue)]

\* The url the loop takes next: the entry at idx of a list, the head of the
\* crawler's queue (urlsToVisit.shift()).
NextUrl(queue, i) == IF driver = "crawler" THEN Head(queue) ELSE queue[i]

\* The loop's condition.
HasNext ==
  IF driver = "crawler"
  THEN Len(urlsToVisit) > 0 /\ Cardinality(visitedUrls) < maxPages
  ELSE idx <= Len(urlsToVisit)

\* The set as it was.
Forget(visited, url) == visited

\* visitedUrls.add(currentUrl)
Visit(visited, url) == visited \cup {url}

\* if (visitedUrls.has(currentUrl)) continue;
AlreadyVisited(url) == driver = "crawler" /\ url \in visitedUrls

\* Where the loop body goes once scrapePage has returned and its record is
\* handled: the crawler's extractLinks for its first pages, else the timer.
AfterPage ==
  IF driver = "crawler" /\ Cardinality(visitedUrls) <= LinkPages
  THEN "links" ELSE "delay"

\* An error that no catch holds back ends the run.
AfterErrorUncaught(v, what, after) == "fatal"

\* Where a failed axios.get leaves the run.  scrapePage, scrapePolicyPage,
\* getLibraryLinks and extractLinks catch it themselves and the run goes
\* on; getIndexPage has no catch, and the error reaches the catch of
\* scrapeAll, which logs 'Fatal error' and closes the database.
AfterError(v, what, after) ==
  IF v = "student" /\ what = "links" THEN "fatal" ELSE after

\* Where the run goes once a listing is handled.
AfterListing == IF driver = "crawler" THEN "delay" ELSE "loop"

\* The page the listing is read from.
ListingUrl == IF driver = "crawler" THEN currentUrl ELSE START_URL

\* What a url serves is free when web is NULL; otherwise web holds what
\* each url served when it was first asked, and the url serves that again.
Serves(what, url, response) ==
  IF web = NULL THEN TRUE
  ELSE web[what][url] = NULL \/ web[what][url] = response

Remembered(what, url, response) ==
  IF web = NULL THEN NULL ELSE [web EXCEPT ![what][url] = response]

\* The loop takes its next url: scrapePage (scrapePolicyPage) is called and
\* its axios.get is awaited.  The crawler shifts the url off its queue and,
\* unless it is visited already, adds it to visitedUrls.
CallScrapePage ==
  /\ pc = "loop"
  /\ HasNext
  /\ LET url == NextUrl(urlsToVisit, idx)
     IN  /\ urlsToVisit' = IF driver = "crawler" THEN Tail(urlsToVisit)
                           ELSE urlsToVisit
         /\ IF AlreadyVisited(url)
            THEN UNCHANGED <<pc, currentUrl, visitedUrls, log>>
            ELSE /\ pc' = "fetching"
                 /\ currentUrl' = url
                 /\ visitedUrls' = IF driver = "crawler"
                                   THEN Visit(visitedUrls, url)
                                   ELSE visitedUrls
                 /\ log' = Append(log, Get(url, "page"))
  /\ UNCHANGED <<driver, idx, fetched, allPolicies, db, phase, run, counts,
                 web, cleanVars, summaryVars, extractVars, serverVars>>

\* The response arrives: the page-extraction function extracts and returns.
\* The list-driven scripts push the record if there is one; the crawler and
\* the library scraper save it (savePolicy).
FetchResponse ==
  /\ pc = "fetching"
  /\ \E d \in Pages(driver) :
       /\ Serves("page", currentUrl, Response(d))
       /\ web' = Remembered("page", currentUrl, Response(d))
       /\ LET policies == Scrape(driver, d, currentUrl)
          IN  /\ fetched' = Append(fetched, Response(d))
              /\ allPolicies' = IF driver \in BatchSavers
                                THEN allPolicies \o policies
                                ELSE allPolicies
              /\ db' = IF driver \in BatchSavers THEN db
                       ELSE UpsertAll(driver, db, policies, run)
              /\ log' = Append(log, Got(currentUrl, "page", TRUE))
                          \o (IF driver \in BatchSavers THEN <<>>
                              ELSE SavedAll(policies))
  /\ pc' = AfterPage
  /\ UNCHANGED <<driver, idx, urlsToVisit, visitedUrls, currentUrl, phase,
                 run, counts, cleanVars, summaryVars, extractVars, serverVars>>

\* axios.get fails or times out: the function's catch returns null (the
\* section scraper's, an empty array).
FetchFailure ==
  /\ pc = "fetching"
  /\ Serves("page", currentUrl, FetchError)
  /\ web' = Remembered("page", currentUrl, FetchError)
  /\ fetched' = Append(fetched, FetchError)
  /\ log' = Append(log, Got(currentUrl, "page", FALSE))
  /\ pc' = AfterError(driver, "page", AfterPage)
  /\ UNCHANGED <<driver, idx, allPolicies, db, urlsToVisit, visitedUrls,
                 currentUrl, phase, run, counts, cleanVars, summaryVars, extractVars, serverVars>>

\* getIndexPage, getLibraryLinks, extractLinks: the axios.get of the listing
\* is awaited.
GetListing ==
  /\ pc = "links"
  /\ log' = Append(log, Get(ListingUrl, "links"))
  /\ pc' = "listing"
  /\ UNCHANGED <<driver, idx, fetched, allPolicies, db, urlsToVisit,
                 visitedUrls, currentUrl, phase, run, counts, web,
                 cleanVars, summaryVars, extractVars, serverVars>>

\* The listing arrives.  The student-policies scraper loops over the first
\* links; the library scraper over the first links without repeats; the
\* crawler pushes the links it has neither visited nor queued and goes to
\* its timer.
ListingResponse ==
  /\ pc = "listing"
  /\ \E links \in Anchors :
       /\ Serves("links", ListingUrl, [ok |-> TRUE, links |-> links])
       /\ web' = Remembered("links", ListingUrl,
                            [ok |-> TRUE, links |-> links])
       /\ log' = Append(log, GotLinks(ListingUrl,
                    \E n \in 1..Len(links) : links[n] \in visitedUrls))
       /\ urlsToVisit' =
            CASE driver = "student" -> Slice(links)
              [] driver = "library" -> Slice(Dedupe(links, {}))
              [] driver = "crawler" ->
                   PushLinks(urlsToVisit, visitedUrls, Dedupe(links, {}))
  /\ pc' = AfterListing
  /\ phase' = "list"
  /\ UNCHANGED <<driver, idx, fetched, allPolicies, db, visitedUrls,
                 currentUrl, run, counts, cleanVars, summaryVars, extractVars, serverVars>>

\* The listing's axios.get fails or times out.  extractLinks and
\* getLibraryLinks catch it and return no links; getIndexPage does not, and
\* the catch of scrapeAll logs a fatal error and closes the database.
ListingFailure ==
  /\ pc = "listing"
  /\ Serves("links", ListingUrl, [ok |-> FALSE, links |-> <<>>])
  /\ web' = Remembered("links", ListingUrl, [ok |-> FALSE, links |-> <<>>])
  /\ log' = Append(log, Got(ListingUrl, "links", FALSE))
  /\ pc' = AfterError(driver, "links", AfterListing)
  /\ phase' = "list"
  /\ UNCHANGED <<driver, idx, fetched, allPolicies, db, urlsToVisit,
                 visitedUrls, currentUrl, run, counts, cleanVars, summaryVars, extractVars, serverVars>>

\* The timer fires (2 seconds; 1.5 in the student-policies scraper): the
\* loop goes on; after the library's main page, getLibraryLinks is next.
DelayElapsed ==
  /\ pc = "delay"
  /\ log' = Append(log, Timer)
  /\ IF driver = "library" /\ phase = "main"
     THEN pc' = "links" /\ idx' = idx
     ELSE /\ pc' = "loop"
          /\ idx' = IF driver = "crawler" THEN idx ELSE idx + 1
  /\ UNCHANGED <<driver, fetched, allPolicies, db, urlsToVisit, visitedUrls,
                 currentUrl, phase, run, counts, web,
                 cleanVars, summaryVars, extractVars, serverVars>>

\* After the loop: the list-driven scripts save their records when there
\* are any.
SavePolicies ==
  /\ pc = "loop"
  /\ ~HasNext
  /\ LET saving == driver \in BatchSavers /\ Len(allPolicies) > 0
     IN  /\ db' = IF saving THEN UpsertAll(driver, db, allPolicies, run)
                  ELSE db
         /\ log' = IF saving THEN log \o SavedAll(allPolicies) ELSE log
  /\ pc' = "counting"
  /\ UNCHANGED <<driver, idx, fetched, allPolicies, urlsToVisit, visitedUrls,
                 currentUrl, phase, run, counts, web,
                 cleanVars, summaryVars, extractVars, serverVars>>

\* db.get('SELECT COUNT(*) ...') and db.close().
CountRows ==
  /\ pc = "counting"
  /\ pc' = "done"
  /\ log' = Append(log, Counted)
  /\ counts' = Append(counts, Cardinality(db))
  /\ UNCHANGED <<driver, idx, fetched, allPolicies, db, urlsToVisit,
                 visitedUrls, currentUrl, phase, run, web,
                 cleanVars, summaryVars, extractVars, serverVars>>

Next ==
  \/ CallScrapePage
  \/ FetchResponse
  \/ FetchFailure
  \/ GetListing
  \/ ListingResponse
  \/ ListingFailure
  \/ DelayElapsed
  \/ SavePolicies
  \/ CountRows

Spec == InitBatch /\ [][Next]_vars

\* The script is run again, at a later time, on the same database and with
\* every url serving what it served before.
Rerun ==
  /\ pc \in {"done", "fatal"}
  /\ run = 1
  /\ run' = run + 1
  /\ pc' = StartPc(driver)
  /\ idx' = 1
  /\ fetched' = <<>>
  /\ allPolicies' = <<>>
  /\ urlsToVisit' = StartList(driver)
  /\ visitedUrls' = {}
  /\ currentUrl' = START_URL
  /\ phase' = StartPhase(driver)
  /\ log' = <<>>
  /\ UNCHANGED <<driver, db, counts, web,
                 cleanVars, summaryVars, extractVars, serverVars>>

\* Nothing asked of any url yet.
NothingServed == [page |-> [u \in Urls |-> NULL], links |-> [u \in Urls |-> NULL]]

InitRerun ==
  /\ driver \in Drivers
  /\ pc = StartPc(driver)
  /\ idx = 1
  /\ fetched = <<>>
  /\ allPolicies = <<>>
  /\ db \in {{}, {StaleRow(driver)}}
  /\ urlsToVisit = StartList(driver)
  /\ visitedUrls = {}
  /\ currentUrl = START_URL
  /\ phase = StartPhase(driver)
  /\ log = <<>>
  /\ run = 1
  /\ counts = <<>>
  /\ web = NothingServed
  /\ IdleClean
  /\ IdleSummary
  /\ IdleExtract
  /\ IdleServer

NextRerun == Next \/ Rerun

SpecRerun == InitRerun /\ [][NextRerun]_vars

\* Every awaited call settles: axios.get has a timeout (10 or 15 seconds),
\* the timers fire and sqlite answers, so a run that can take a step does.
SpecLive == InitBatch /\ [][Next]_vars /\ WF_vars(Next)

(***************************************************************************)
(* What the text says cleanText computes, written on the characters: a     *)
(* non-whitespace character is kept; it is preceded by one separator when  *)
(* the character before it is whitespace and some non-whitespace character *)
(* comes earlier.  The separator of a whitespace run is sep(run).          *)
(***************************************************************************)
IsWs(cs, i) == cs[i] \in WS

\* The first index of the maximal whitespace run that ends at index i.
RECURSIVE WsRunStart(_, _)
WsRunStart(cs, i) ==
  IF i > 1 /\ IsWs(cs, i - 1) THEN WsRunStart(cs, i - 1) ELSE i

\* The one character a whitespace run cs[a..b] becomes: a newline when
\* paragraph breaks are kept and the run holds one, a space otherwise.
RunSeparator(cs, a, b, keepBreaks) ==
  IF keepBreaks /\ \E j \in a..b : cs[j] = "\n" THEN "\n" ELSE " "

RECURSIVE Normalized(_, _, _)
Normalized(cs, i, keepBreaks) ==
  IF i > Len(cs) THEN <<>>
  ELSE (IF IsWs(cs, i) THEN <<>>
        ELSE IF i > 1 /\ IsWs(cs, i - 1) /\ WsRunStart(cs, i - 1) > 1
             THEN <<RunSeparator(cs, WsRunStart(cs, i - 1), i - 1, keepBreaks),
                    cs[i]>>
             ELSE <<cs[i]>>)
       \o Normalized(cs, i + 1, keepBreaks)

\* Whitespace runs collapsed to one space, ends trimmed.
CollapsedText(s) == Normalized(ToChars(s), 1, FALSE)

\* Whitespace runs holding a newline collapsed to one newline, the others
\* to one space, ends trimmed.
ParagraphText(s) == Normalized(ToChars(s), 1, TRUE)

HasChar(s, ch) == \E i \in 1..Len(s) : s[i].c = ch

\* C9: cleanText (collapsing mode) returns its input with every maximal run
\* of whitespace replaced by one space and the ends trimmed; its result holds
\* no tab, no newline, no two adjacent spaces and no leading or trailing
\* space.
C9_CleanTextCollapses ==
  cleaned # NULL =>
    LET out == cleaned.collapse
    IN  /\ ToChars(out) = CollapsedText(text)
        /\ ~HasChar(out, "\t")
        /\ ~HasChar(out, "\n")
        /\ \A i \in 1..Len(out) : out[i].c = " " => out[i].n = 1
        /\ out # <<>> => out[1].c # " " /\ out[Len(out)].c # " "

\* "Hello\n\n\tworld   !" has been cleaned to "Hello world !".
C9_Witness ==
  /\ text = HelloWorld
  /\ cleaned # NULL
  /\ ToChars(cleaned.collapse) =
       <<"H", "e", "l", "l", "o", " ", "w", "o", "r", "l", "d", " ", "!">>

\* C10: the cleanText with the extra newline replacement keeps paragraph
\* breaks: a whitespace run that holds a newline becomes one newline (so
\* "Hello\n\n\tworld   !" becomes "Hello\nworld !"), and its result differs
\* from the collapsing cleanText's whenever a newline separates two words.
C10_NewlineVariantKeepsBreaks ==
  cleaned # NULL =>
    /\ ToChars(cleaned.newline) = ParagraphText(text)
    /\ (\E i \in 1..Len(ParagraphText(text)) : ParagraphText(text)[i] = "\n") => cleaned.newline # cleaned.collapse

\* What the code does instead: both cleanText return the same string.
C10_NewlineVariantCollapses ==
  cleaned # NULL => cleaned.newline = cleaned.collapse

(***************************************************************************)
(* The summary law, written on the characters of the content.              *)
(***************************************************************************)
Max(S) == CHOOSE m \in S : \A k \in S : k <= m

\* 1-based positions of the periods among the first 200 characters.
PeriodsInPrefix(cs) ==
  {i \in 1..(IF Len(cs) < 200 THEN Len(cs) ELSE 200) : cs[i] = "."}

\* The first 197 characters followed by "...".
HardCut(cs) == SubSeq(cs, 1, 197) \o <<".", ".", ".">>

\* The reference function: content of at most 200 characters unchanged;
\* otherwise the prefix ending at the last period of the first 200
\* characters when its 0-based index exceeds 140; otherwise the hard cut.
SummaryLaw(cs) ==
  IF Len(cs) <= 200 THEN cs
  ELSE IF PeriodsInPrefix(cs) # {} /\ Max(PeriodsInPrefix(cs)) - 1 > 140
       THEN SubSeq(cs, 1, Max(PeriodsInPrefix(cs)))
       ELSE HardCut(cs)

\* C5: the period-aware generateSummary (maxLength 200) equals the reference
\* function: content of at most 200 characters is returned unchanged; longer
\* content whose last period within the first 200 characters lies beyond
\* position 140 is cut at that period inclusive; otherwise the summary is
\* the first 197 characters followed by "...".
C5_PeriodSummaryLaw ==
  summary # NULL => ToChars(summary.period) = SummaryLaw(ToChars(content))

\* Long content whose last period in the first 200 characters is at index
\* 141, just beyond the 70% mark, after an earlier period at index 0: the
\* summary is the 142 characters up to that period.
C5_Witness ==
  /\ summary # NULL
  /\ StrLen(content) > 200
  /\ content[1].c = "."
  /\ LastIndexOf(Substring0(content, 200), ".") = 141
  /\ StrLen(summary.period) = 142

\* C6 (as claimed): the generateSummary of scrape-policies-v2.js,
\* scrape-missing-pages.js, the crawler and the library scraper applies the
\* sentence-boundary rule: for content longer than maxLength whose last
\* period in the first maxLength characters lies beyond 70% of maxLength,
\* the summary is cut at that period inclusive, not hard-cut.
C6_SimpleSummaryCutsAtSentence ==
  summary # NULL =>
    LET cs == ToChars(content)
    IN  (/\ Len(cs) > 200
         /\ PeriodsInPrefix(cs) # {}
         /\ Max(PeriodsInPrefix(cs)) - 1 > 140)
        => ToChars(summary.simple) = SubSeq(cs, 1, Max(PeriodsInPrefix(cs)))

\* C6 (amended): that generateSummary has no sentence-boundary rule: content
\* of at most 200 characters is returned unchanged and longer content is
\* always cut to its first 197 characters followed by "...", wherever its
\* periods are.
C6_SimpleSummaryHardCuts ==
  summary # NULL =>
    LET cs == ToChars(content)
    IN  ToChars(summary.simple) = (IF Len(cs) <= 200 THEN cs ELSE HardCut(cs))

\* "A. " 100 times: the simple summary is 197 characters and "...", while
\* the period-aware one ends at the period at index 199.
C6_Witness ==
  /\ extracted = ADotExample
  /\ summary # NULL
  /\ ToChars(summary.simple) = HardCut(ToChars(content))
  /\ StrLen(summary.period) = 200
  /\ summary.period[Len(summary.period)].c = "."
  /\ summary.simple # summary.period

\* C7: the summary of a record is at most 200 characters long, whichever
\* generateSummary made it.
C7_SummaryAtMost200 ==
  summary # NULL =>
    /\ StrLen(summary.simple) <= 200
    /\ StrLen(summary.period) <= 200

\* 500 "x": both summaries are exactly 200 characters long.
C7_Witness ==
  /\ extracted = Rep("x", 500)
  /\ summary # NULL
  /\ StrLen(summary.simple) = 200
  /\ StrLen(summary.period) = 200

(***************************************************************************)
(* The tiers of a loop-based scrapePage, stated on the document.           *)
(***************************************************************************)
Kept(v, d) == Remove(d, NoiseSelectors(v))

\* The cleaned text of the elements selector k matches.
SelectorText(v, d, k) ==
  cleanText(ElementsText(d, Kept(v, d),
                         InOrder(d, {i \in Kept(v, d) :
                                       Matches(d[i], Selectors(v)[k])})))

\* The selectors that match an element and whose cleaned text is longer
\* than the minimum, by their positions in the list.
QualifyingSelectors(v, d) ==
  LET kept == Kept(v, d)
  IN  {k \in 1..Len(Selectors(v)) :
         LET matched == {i \in kept : Matches(d[i], Selectors(v)[k])}
         IN  /\ matched # {}
             /\ StrLen(cleanText(ElementsText(d, kept, InOrder(d, matched))))
                  > MinLength(v)}

NoSelectorQualifies(v, d) == QualifyingSelectors(v, d) = {}

\* The least element of a non-empty set of numbers.
Min(S) == CHOOSE k \in S : \A j \in S : k <= j

\* The body's elements with one of the tags whose own cleaned text is
\* longer than the per-node floor, in document order.
QualifyingNodes(v, d, tags) ==
  InOrder(d, {i \in Kept(v, d) :
                /\ d[i].tag \in tags
                /\ StrLen(cleanText(TextFrom(d, Kept(v, d), i, i)))
                     > ParagraphFloor})

RECURSIVE Joined(_, _, _)
Joined(v, d, nodes) ==
  IF nodes = <<>> THEN <<>>
  ELSE Concat(Concat(cleanText(TextFrom(d, Kept(v, d), Head(nodes), Head(nodes))),
                     Separator(v)),
              Joined(v, d, Tail(nodes)))

\* The document-order concatenation of the qualifying elements' texts.
Concatenation(v, d, tags) == Trim(Joined(v, d, QualifyingNodes(v, d, tags)))

\* String p is the first StrLen(p) characters of string q.
IsPrefix(p, q) ==
  \/ p = <<>>
  \/ /\ Len(p) <= Len(q)
     /\ \A i \in 1..(Len(p) - 1) : p[i] = q[i]
     /\ p[Len(p)].c = q[Len(p)].c
     /\ p[Len(p)].n <= q[Len(p)].n

Ran == returned # NULL

\* C1: in the loop-based scrapePage functions the selectors are tried in
\* list order and the text of the first selector whose cleaned text is
\* longer than the minimum becomes the record's content (cut to the
\* maximum); the paragraph fallback then does not run and adds nothing.
C1_FirstQualifyingSelectorWins ==
  (Ran /\ variant \in LoopScrapers) =>
    LET qualifying == QualifyingSelectors(variant, doc)
        k == Min(qualifying)
        chosen == SelectorText(variant, doc, k)
    IN  qualifying # {} =>
          /\ accepted.selector = k
          /\ ~accepted.fallback
          /\ accepted.content = chosen
          /\ returned.value # NULL
          /\ returned.value.content = Substring0(chosen, MaxContent(variant))

\* The crawler on a page whose main element, first in the list, holds one
\* paragraph and is too short, and whose .content element, third in the
\* list, qualifies: the content is the .content element's text, without the
\* paragraph the fallback would have taken.
C1_Witness ==
  /\ Ran
  /\ variant = "crawler"
  /\ \E i \in 1..Len(doc) : doc[i].tag = "main"
  /\ \E i \in 1..Len(doc) :
       /\ doc[i].tag = "p"
       /\ StrLen(cleanText(doc[i].text)) > ParagraphFloor
  /\ accepted.selector = 3
  /\ ~accepted.fallback
  /\ returned.value # NULL
  /\ StrLen(returned.value.content) = MinLength(variant) + 1

\* C2 (as claimed): when no selector qualifies but the concatenation of the
\* qualifying paragraphs AND list items meets the minimum, scrapePage
\* returns a record whose content is that concatenation.
C2_FallbackTakesParagraphsAndListItems ==
  (/\ Ran /\ variant \in LoopScrapers
   /\ NoSelectorQualifies(variant, doc)
   /\ StrLen(Concatenation(variant, doc, {"p", "li"})) >= MinLength(variant))
  => /\ returned.value # NULL
     /\ returned.value.content =
          Substring0(Concatenation(variant, doc, {"p", "li"}),
                     MaxContent(variant))

\* C2 (amended): the fallback collects paragraphs only.  When no selector
\* qualifies and the concatenation of the qualifying paragraphs meets the
\* minimum, scrapePage returns a record whose content is that concatenation
\* (cut to the maximum); when it does not, scrapePage returns null, whatever
\* the list items hold.
C2_FallbackTakesParagraphsOnly ==
  (Ran /\ variant \in LoopScrapers /\ NoSelectorQualifies(variant, doc)) =>
    LET joined == Concatenation(variant, doc, {"p"})
    IN  /\ accepted.fallback
        /\ accepted.content = joined
        /\ IF StrLen(joined) >= MinLength(variant)
           THEN /\ returned.value # NULL
                /\ returned.value.content =
                     Substring0(joined, MaxContent(variant))
           ELSE returned.value = NULL

\* Two qualifying paragraphs that together meet the minimum, beside a list
\* item longer than the minimum: the record holds the two paragraphs only.
C2_Witness ==
  /\ Ran
  /\ variant \in LoopScrapers
  /\ NoSelectorQualifies(variant, doc)
  /\ Len(QualifyingNodes(variant, doc, {"p"})) = 2
  /\ Len(QualifyingNodes(variant, doc, {"li"})) = 1
  /\ returned.value # NULL
  /\ returned.value.content = Concatenation(variant, doc, {"p"})
  /\ returned.value.content # Concatenation(variant, doc, {"p", "li"})

\* The minimum each page-extraction function asks of its content.
Floor(v) == IF v \in LoopScrapers THEN MinLength(v) ELSE PolicyMinLength

\* The threshold the claim gives: the scraper's own where it lies in
\* 100..200, the bottom of that range for scrapePolicyPage.
ClaimedThreshold(v) == IF v \in LoopScrapers THEN MinLength(v) ELSE 100

Records ==
  IF variant = "section" THEN {returned.value[i] : i \in DOMAIN returned.value}
  ELSE {returned.value} \ {NULL}

\* C4 (as claimed): every record has content whose accepted length strictly
\* exceeds a threshold in 100..200 (100 in scrape-policies-v2 and
\* scrape-missing-pages, 200 in the crawler and the library scraper), and
\* content that does not exceed it, its length equal to it included,
\* produces no record.
C4_RecordsExceedThreshold ==
  Ran =>
    /\ \A r \in Records : r.content # <<>>
    /\ variant = "section" =>
         \A r \in Records : StrLen(r.content) > ClaimedThreshold(variant)
    /\ variant # "section" =>
         (returned.value # NULL
            <=> StrLen(accepted.content) > ClaimedThreshold(variant))

\* C4 (amended): every record has non-empty content whose accepted length
\* is at least the function's minimum (100, 200, or 50 in scrapePolicyPage;
\* more than 100 for a section record): content taken from a selector
\* strictly exceeds it, content of exactly that length is accepted; content
\* shorter than the minimum produces no record.
C4_RecordsMeetMinimum ==
  Ran =>
    /\ \A r \in Records : r.content # <<>>
    /\ variant = "section" =>
         \A r \in Records : StrLen(r.content) > SectionMinLength
    /\ variant # "section" =>
         (returned.value # NULL <=> StrLen(accepted.content) >= Floor(variant))
    /\ (variant \in LoopScrapers /\ returned.value # NULL /\ ~accepted.fallback)
         => StrLen(accepted.content) > MinLength(variant)

\* scrape-policies-v2.js returns a record for fallback content of exactly
\* 100 characters.
C4_Witness ==
  /\ Ran
  /\ variant = "v2"
  /\ accepted.fallback
  /\ StrLen(accepted.content) = 100
  /\ returned.value # NULL
  /\ returned.value.content = accepted.content

\* C8: accepted content longer than the scraper's maximum (8000, 10000 or
\* 12000) is stored as exactly its first maximum characters; accepted
\* content no longer than the maximum is stored unchanged.
C8_StoredContentIsCut ==
  (Ran /\ variant # "section" /\ returned.value # NULL) =>
    IF StrLen(accepted.content) > MaxContent(variant)
    THEN /\ StrLen(returned.value.content) = MaxContent(variant)
         /\ IsPrefix(returned.value.content, accepted.content)
    ELSE returned.value.content = accepted.content

\* The crawler accepts 12001 characters and stores 12000; the content
\* summarised is the accepted one.
C8_Witness ==
  /\ Ran
  /\ variant = "crawler"
  /\ returned.value # NULL
  /\ StrLen(accepted.content) = 12001
  /\ StrLen(returned.value.content) = 12000

(***************************************************************************)
(* The batch driver on pages that yield nothing.                           *)
(***************************************************************************)
\* Neither tier of scrapePage meets the minimum on document d.
NeitherTierMeets(v, d) ==
  /\ NoSelectorQualifies(v, d)
  /\ StrLen(Concatenation(v, d, {"p"})) < MinLength(v)

\* The entries whose page has been handled: fetched, extracted, and the
\* result pushed or dropped.
Handled == 1..Len(fetched)

\* C3: for a document where neither the selector tier nor the paragraph
\* fallback meets the minimum, scrapePage returns null as an ordinary
\* value, and the batch driver records nothing for that URL and goes on:
\* no record and no new row carries the URL, and the run is at its timer,
\* at a later entry, or past the loop, never stopped short of its end.
C3_NothingRecordedAndRunGoesOn ==
  \A i \in Handled :
    (/\ driver \in ListDrivers
     /\ fetched[i].ok /\ NeitherTierMeets(driver, fetched[i].doc)) =>
      /\ \A k \in 1..Len(allPolicies) : allPolicies[k].source_url # i
      /\ \A row \in db : row.source_url = i => row \in {StaleRow(driver)}
      /\ \/ idx = i /\ pc = "delay"
         \/ idx > i /\ pc \in {"loop", "fetching", "delay", "counting", "done"}
      /\ pc # "done" => ENABLED Next

\* The first page yielded nothing, the second a record: the run has ended
\* with the second page's record saved and none for the first.
C3_Witness ==
  /\ driver \in ListDrivers
  /\ pc = "done"
  /\ Len(fetched) = 2
  /\ fetched[1].ok
  /\ fetched[1].doc # <<>>
  /\ NeitherTierMeets(driver, fetched[1].doc)
  /\ Len(allPolicies) = 1
  /\ allPolicies[1].source_url = 2
  /\ \E row \in db : row.source_url = 2
  /\ ~\E row \in db : row.source_url = 1

(***************************************************************************)
(* The content container of scrapePolicyPage and of the section scraper.   *)
(***************************************************************************)
\* The container selectors in the order the source lists them.
ContainerList(v) ==
  IF v = "student"
  THEN <<TagSel("main"), ClassSel("main-content"), TagSel("article"),
         ClassSel("content"), ClassSel("policy-content")>>
  ELSE <<TagSel("main"), ClassSel("main-content"), TagSel("article"),
         ClassSel("content")>>

\* The positions in the list of the selectors that match an element of d.
MatchingContainers(v, d) ==
  {k \in 1..Len(ContainerList(v)) :
     \E i \in 1..Len(d) : Matches(d[i], ContainerList(v)[k])}

\* The first element of d matching the earliest-listed selector that
\* matches any.
ContainerByPriority(v, d) ==
  LET k == Min(MatchingContainers(v, d))
  IN  Min({i \in 1..Len(d) : Matches(d[i], ContainerList(v)[k])})

\* C11: in scrapePolicyPage and in the section scraper the container is the
\* element matching the earliest-listed selector that matches anything, even
\* when an element matching a later-listed selector comes earlier in the
\* document.
C11_ContainerBySelectorPriority ==
  (Ran /\ variant \in {"student", "section"}
       /\ MatchingContainers(variant, doc) # {})
    => accepted.container = ContainerByPriority(variant, doc)

\* What the code does: the container is the first element in document order
\* that matches any of the selectors, whatever their order in the list.
C11_ContainerByDocumentOrder ==
  (Ran /\ variant \in {"student", "section"}) =>
    LET matching == {i \in 1..Len(doc) :
                       \E k \in 1..Len(ContainerList(variant)) :
                         Matches(doc[i], ContainerList(variant)[k])}
    IN  accepted.container = IF matching = {} THEN 0 ELSE Min(matching)

\* scrapePolicyPage on a page whose .content element, with a paragraph in
\* it, precedes an empty main element: the record is made of the .content
\* element's paragraph.
C11_Witness ==
  /\ Ran
  /\ variant = "student"
  /\ Len(doc) = 3
  /\ doc[1].cls = "content"
  /\ doc[3].tag = "main"
  /\ doc[2].tag = "p" /\ doc[2].parent = 1
  /\ accepted.container = 1
  /\ returned.value # NULL

(***************************************************************************)
(* Non-content elements.                                                   *)
(***************************************************************************)
\* String s holds text of a nav element or of a breadcrumb.
HoldsNoise(s) == HasChar(s, "n") \/ HasChar(s, "b")

\* C12 (as claimed): in every scraper the navigation and menu/breadcrumb
\* elements are removed before any text is read, so no record's content
\* holds text located inside such an element.
C12_NoNoiseInAnyContent ==
  Ran => \A r \in Records : ~HoldsNoise(r.content)

\* C12 (amended): the loop-based scrapers remove the nav elements before any
\* text is read, and the crawler and the library scraper the breadcrumbs as
\* well: their content, by a selector or by the fallback, and their summary
\* hold no text from inside such an element.
C12_LoopScrapersRemoveTheirNoise ==
  (Ran /\ variant \in LoopScrapers) =>
    /\ ~HasChar(accepted.content, "n")
    /\ variant \in {"crawler", "library"} => ~HasChar(accepted.content, "b")
    /\ \A r \in Records :
         /\ ~HasChar(r.content, "n") /\ ~HasChar(r.summary, "n")
         /\ variant \in {"crawler", "library"} => ~HoldsNoise(r.summary)

\* scrape-policies-v2.js on a page whose main element holds a nav element
\* with text and a paragraph: the record holds the paragraph only.
C12_Witness ==
  /\ Ran
  /\ variant = "v2"
  /\ \E i, j \in 1..Len(doc) :
       /\ doc[i].tag = "main"
       /\ doc[j].tag = "nav" /\ doc[j].parent = i /\ doc[j].text # <<>>
  /\ returned.value # NULL
  /\ returned.value.content # <<>>
  /\ ~HoldsNoise(returned.value.content)

(***************************************************************************)
(* The question-answering server: server.js, its earlier copy in           *)
(* unnamed/part_001 (no web search) and server-old.js (sqlite).  A text    *)
(* the server tests with includes() is a sequence of fragments, and        *)
(* includes() is the search for a run of fragments; a policy's content is  *)
(* a run-length encoded string as in the scrapers.                         *)
(***************************************************************************)
Apps == {"server", "part_001", "old"}

\* The fragments the server looks for or writes.
WARN == "(warning sign)"
NOTE == " Please note:"
SHOULD_SEARCH == "should search"
MORE_COMPLETE == "more complete information"
DONT_FULLY == "don't fully address"
PLAIN == "According to the policy, ..."

\* s.includes(p)
Includes(s, p) ==
  \E i \in 0..(Len(s) - Len(p)) : SubSeq(s, i + 1, i + Len(p)) = p

\* The notice appended to a model answer.
Disclaimer(a) ==
  IF a = "old"
  THEN <<"\n\n", WARN, NOTE,
         " This tool can make mistakes. Always verify with actual Suffolk Law policies or consult ...">>
  ELSE <<"\n\n", WARN, NOTE,
         " This tool can make mistakes. Verify with actual Suffolk Law policies or contact ...">>

\* The answer of the coursework short-circuit.
CourseworkAnswer(a) ==
  <<"This is the kind of question that is best directed to your professor.">>
    \o Disclaimer(a)

\* The notice appended to a web-search answer.
WebDisclaimer ==
  <<"\n\n", WARN, NOTE,
    " This information was found by searching Suffolk Law's website. ...">>

\* The answer when there are no policies and no web result (server.js), or
\* no policies (part_001).
FallbackAnswer(a) ==
  <<IF a = "server"
    THEN "I currently don't have enough information to answer this question. ..."
    ELSE "I currently don't have any policies loaded in my database. ...",
    "\n\n", WARN, NOTE,
    " This tool can make mistakes. Always verify with actual Suffolk Law policies.">>

\* The fragment a model answer is tested for before the notice is appended.
NoticeMark(a) == IF a = "old" THEN <<WARN, NOTE>> ELSE <<WARN>>

\* A mark that is never found: the notice is always appended.
NoMark(a) == <<"(none)">>

\* if (!answer.includes(...)) answer += notice
WithDisclaimer(a, answer) ==
  IF Includes(answer, NoticeMark(a)) THEN answer ELSE answer \o Disclaimer(a)

\* The answer suggests that more information is needed.
NeedsMore(answer) ==
  \/ Includes(answer, <<SHOULD_SEARCH>>)
  \/ Includes(answer, <<MORE_COMPLETE>>)
  \/ Includes(answer, <<DONT_FULLY>>)

\* The database answer with the web-search text added.
Combined(answer, searchAnswer) ==
  <<"Based on my database:\n">> \o answer
    \o <<"\n\n---\n\n**Additional information from Suffolk Law website:**\n">>
    \o searchAnswer

(***************************************************************************)
(* The question of a request body: no question, a number, or a string, as  *)
(* a sequence of words with single spaces between them.                    *)
(***************************************************************************)
Words == {"Hi", "exam", "reSOLVE", "homework"}

\* word.length
Letters(w) ==
  CASE w = "Hi" -> 2
    [] w = "exam" -> 4
    [] w = "reSOLVE" -> 7
    [] w = "resolve" -> 7
    [] w = "homework" -> 8

\* word.toLowerCase()
LowerWord(w) == IF w = "reSOLVE" THEN "resolve" ELSE w

\* word.includes(keyword)
WordIncludes(w, keyword) ==
  <<w, keyword>> \in {<<"resolve", "solve">>, <<"reSOLVE", "SOLVE">>,
                      <<"homework", "homework">>, <<"homework", "work">>}

Undefined == [kind |-> "undefined", words |-> <<>>]
Number == [kind |-> "number", words |-> <<>>]
String(words) == [kind |-> "string", words |-> words]

\* !question
Falsy(q) == q.kind = "undefined" \/ (q.kind = "string" /\ q.words = <<>>)

RECURSIVE SumLetters(_)
SumLetters(words) ==
  IF words = <<>> THEN 0 ELSE Letters(Head(words)) + SumLetters(Tail(words))

\* question.length of a string
Length(q) == SumLetters(q.words) + (IF q.words = <<>> THEN 0 ELSE Len(q.words) - 1)

\* question.length < 5: undefined < 5 is false for a number.
TooShort(q) == q.kind = "string" /\ Length(q) < 5

\* question.toLowerCase()
ToLowerCase(q) == String([i \in 1..Len(q.words) |-> LowerWord(q.words[i])])

\* lowerQ.includes(keyword), for a keyword of one word
QuestionIncludes(q, keyword) ==
  \E i \in 1..Len(q.words) : WordIncludes(q.words[i], keyword)

\* No filter.
NoCoursework(a, lowerQ) == FALSE

\* The coursework filter: 'solve', 'homework', 'assignment' (server-old.js:
\* 'how do i solve', 'help with assignment', 'homework').
Coursework(a, lowerQ) ==
  IF a = "old" THEN QuestionIncludes(lowerQ, "homework")
  ELSE \/ QuestionIncludes(lowerQ, "solve")
       \/ QuestionIncludes(lowerQ, "homework")
       \/ QuestionIncludes(lowerQ, "assignment")

(***************************************************************************)
(* The policies table and the query of /api/ask.                           *)
(***************************************************************************)
AskLimit(a) == IF a = "old" THEN 8 ELSE 15

SourcesLimit == 5

ContentLimit == 1000

\* r comes before o: by last_updated descending where the query orders,
\* and among equals (or without ORDER BY) as the database returns them,
\* here by id, ascending or descending.
Precedes(r, o, ordered, tie) ==
  IF ordered /\ r.last_updated # o.last_updated
  THEN r.last_updated > o.last_updated
  ELSE IF tie = "asc" THEN r.id < o.id ELSE r.id > o.id

RECURSIVE OrderBy(_, _, _)
OrderBy(rows, ordered, tie) ==
  IF rows = {} THEN <<>>
  ELSE LET first == CHOOSE r \in rows :
                      \A o \in rows \ {r} : Precedes(r, o, ordered, tie)
       IN  <<first>> \o OrderBy(rows \ {first}, ordered, tie)

\* LIMIT n, slice(0, n)
Limit(rows, n) == SubSeq(rows, 1, IF Len(rows) < n THEN Len(rows) ELSE n)

\* SELECT * FROM policies WHERE is_active = true ORDER BY last_updated DESC
\* LIMIT 15 (server-old.js: WHERE is_active = 1 LIMIT 8)
SelectPolicies(a, rows, tie) ==
  Limit(OrderBy({r \in rows : r.is_active}, a # "old", tie), AskLimit(a))

\* The whole content.
WholeContent(a, p) == p.content

\* p.content.substring(0, 1000) (server-old.js: p.content)
PromptContent(a, p) ==
  IF a = "old" THEN p.content ELSE Substring0(p.content, ContentLimit)

\* policies.map((p, i) => `[Policy ${i+1}]\nTitle: ...\nContent: ...\nURL: ...`)
Context(a, rows) ==
  [i \in 1..Len(rows) |->
     [n |-> i, id |-> rows[i].id, title |-> rows[i].title,
      content |-> PromptContent(a, rows[i]), url |-> rows[i].source_url]]

\* policies.slice(0, 5).map(p => ({id, title, category, url}))
Sources(rows) ==
  LET cited == Limit(rows, SourcesLimit)
  IN  [i \in 1..Len(cited) |->
         [id |-> cited[i].id, title |-> cited[i].title,
          url |-> cited[i].source_url]]

\* The source cited for a web-search answer: the site's search page, which
\* is no row of the table (titles and urls of rows are their numbers).
WebSource == <<[id |-> 0, title |-> -1, url |-> -1]>>

(***************************************************************************)
(* Inputs of the server: tables of up to MaxRows rows (row i has id, title *)
(* and url i; all, every other or none of them active; last_updated       *)
(* rising with the id, or equal two by two; contents at, over and under    *)
(* the prompt's limit), requests and model replies.                        *)
(***************************************************************************)
MaxRows == 17

MaxReply == 2

ContentOf(i) ==
  CASE i % 3 = 1 -> X(ContentLimit)
    [] i % 3 = 2 -> X(ContentLimit + i)
    [] OTHER -> X(i)

PolicyRow(i, act, time) ==
  [id |-> i, external_id |-> i, title |-> i, content |-> ContentOf(i),
   source_url |-> i,
   is_active |-> CASE act = "all" -> TRUE
                   [] act = "odd" -> i % 2 = 1
                   [] OTHER -> FALSE,
   last_updated |-> IF time = "rising" THEN i ELSE i \div 2]

TableOf(n, act, time) == {PolicyRow(i, act, time) : i \in 1..n}

Questions ==
  {Undefined, Number}
    \cup {String(<<>>)}
    \cup {String(<<w>>) : w \in Words}
    \cup {String(<<w1, w2>>) : w1 \in Words, w2 \in Words}

ReplyAlphabet == {WARN, NOTE, SHOULD_SEARCH, PLAIN}

\* response.content[0].text
Replies == UNION {[1..n -> ReplyAlphabet] : n \in 0..MaxReply}

\* What searchSuffolkWebsite gives its caller: nothing (no results, an error
\* it caught, or an error the caller catches), or the model's text.
SearchResults ==
  {[found |-> FALSE, text |-> <<>>],
   [found |-> TRUE, text |-> <<>>],
   [found |-> TRUE, text |-> <<PLAIN>>],
   [found |-> TRUE, text |-> <<WARN, PLAIN>>]}

(***************************************************************************)
(* POST /api/ask.  A handler runs from one await to the next in one step:  *)
(* "query" waits for the policies query, "claude" for the model, "search"  *)
(* and "websearch" for searchSuffolkWebsite, "insert" for the              *)
(* qa_interactions insert.                                                 *)
(***************************************************************************)
Call(k, op, prompt) == [id |-> k, op |-> op, prompt |-> prompt]

Reply(k, status, success, answer, sources) ==
  [id |-> k, status |-> status, success |-> success, answer |-> answer,
   sources |-> sources]

\* res.status(400) / res.status(500): success false, no answer.
Failure(k, status) == Reply(k, status, FALSE, <<>>, <<>>)

Ask(q) ==
  [route |-> "ask", pc |-> "received", question |-> q, rows |-> <<>>,
   answer |-> <<>>]

At(k, where) == k \in DOMAIN handlers /\ handlers[k].pc = where

Goto(k, where) == [handlers EXCEPT ![k].pc = where]

InitAsk ==
  /\ app \in Apps
  /\ \E n \in 0..MaxRows, act \in {"all", "odd", "none"},
        time \in {"rising", "pairs"} :
       policiesTable = TableOf(n, act, time)
  /\ qaInteractions = <<>>
  /\ \E q \in Questions : handlers = <<Ask(q)>>
  /\ calls = <<>>
  /\ sent = <<>>
  /\ proc = "listening"
  /\ IdleClean
  /\ IdleSummary
  /\ IdleExtract
  /\ IdleBatch

\* The request arrives: validation, the coursework filter, and the policies
\* query is issued.  A question that is no string passes the length test
\* (undefined < 5 is false) and toLowerCase throws into the handler's catch.
Receive(k) ==
  /\ At(k, "received")
  /\ handlers[k].route = "ask"
  /\ LET q == handlers[k].question
     IN  IF Falsy(q) \/ TooShort(q)
         THEN /\ sent' = Append(sent, Failure(k, 400))
              /\ handlers' = Goto(k, "done")
              /\ calls' = calls
         ELSE IF q.kind # "string"
         THEN /\ sent' = Append(sent, Failure(k, 500))
              /\ handlers' = Goto(k, "done")
              /\ calls' = calls
         ELSE IF Coursework(app, ToLowerCase(q))
         THEN /\ sent' = Append(sent, Reply(k, 200, TRUE,
                                               CourseworkAnswer(app), <<>>))
              /\ handlers' = Goto(k, "done")
              /\ calls' = calls
         ELSE /\ calls' = Append(calls, Call(k, "query", <<>>))
              /\ handlers' = Goto(k, "query")
              /\ sent' = sent
  /\ UNCHANGED <<app, policiesTable, qaInteractions, proc,
                 cleanVars, summaryVars, extractVars, batchVars>>

\* The policies query throws: 500.
QueryThrows(k) ==
  /\ At(k, "query")
  /\ sent' = Append(sent, Failure(k, 500))
  /\ handlers' = Goto(k, "done")
  /\ UNCHANGED <<app, policiesTable, qaInteractions, calls, proc,
                 cleanVars, summaryVars, extractVars, batchVars>>

\* The policies query returns.  With rows the prompt is built and the model
\* is called (server-old.js: also without rows); without rows server.js
\* searches the website and part_001 answers that it has no policies.
QueryReturns(k) ==
  /\ At(k, "query")
  /\ \E tie \in {"asc", "desc"} :
       LET rows == SelectPolicies(app, policiesTable, tie)
       IN  IF rows = <<>> /\ app = "server"
           THEN /\ calls' = Append(calls, Call(k, "search", <<>>))
                /\ handlers' = Goto(k, "websearch")
                /\ sent' = sent
           ELSE IF rows = <<>> /\ app = "part_001"
           THEN /\ sent' = Append(sent, Reply(k, 200, TRUE,
                                                 FallbackAnswer(app), <<>>))
                /\ handlers' = Goto(k, "done")
                /\ calls' = calls
           ELSE /\ calls' = Append(calls,
                                   Call(k, "claude", Context(app, rows)))
                /\ handlers' = [handlers EXCEPT ![k].pc = "claude",
                                                ![k].rows = rows]
                /\ sent' = sent
  /\ UNCHANGED <<app, policiesTable, qaInteractions, proc,
                 cleanVars, summaryVars, extractVars, batchVars>>

\* anthropic.messages.create throws, or its content is empty and reading
\* response.content[0].text throws: 500.  In server-old.js the call is made
\* inside the callback of db.all, outside the handler's try: nothing is
\* sent.
ClaudeThrows(k) ==
  /\ At(k, "claude")
  /\ IF app = "old"
     THEN /\ handlers' = Goto(k, "unhandled")
          /\ sent' = sent
     ELSE /\ handlers' = Goto(k, "done")
          /\ sent' = Append(sent, Failure(k, 500))
  /\ UNCHANGED <<app, policiesTable, qaInteractions, calls, proc,
                 cleanVars, summaryVars, extractVars, batchVars>>

\* The model answers.  server.js searches the website when the answer says
\* more is needed; otherwise the notice is appended unless the answer holds
\* its mark, and the interaction is logged (server-old.js does not await
\* the insert and responds at once).
ClaudeReturns(k) ==
  /\ At(k, "claude")
  /\ \E reply \in Replies, logged \in BOOLEAN :
       IF app = "server" /\ NeedsMore(reply)
       THEN /\ ~logged
            /\ calls' = Append(calls, Call(k, "search", <<>>))
            /\ handlers' = [handlers EXCEPT ![k].pc = "search",
                                            ![k].answer = reply]
            /\ UNCHANGED <<sent, qaInteractions>>
       ELSE LET answer == WithDisclaimer(app, reply)
            IN  /\ calls' = Append(calls, Call(k, "insert", <<>>))
                /\ IF app = "old"
                   THEN /\ qaInteractions' =
                             IF logged THEN Append(qaInteractions, answer)
                             ELSE qaInteractions
                        /\ sent' = Append(sent,
                             Reply(k, 200, TRUE, answer,
                                      Sources(handlers[k].rows)))
                        /\ handlers' = [handlers EXCEPT ![k].pc = "done",
                                                        ![k].answer = answer]
                   ELSE /\ ~logged
                        /\ handlers' = [handlers EXCEPT ![k].pc = "insert",
                                                        ![k].answer = answer]
                        /\ UNCHANGED <<sent, qaInteractions>>
  /\ UNCHANGED <<app, policiesTable, proc,
                 cleanVars, summaryVars, extractVars, batchVars>>

\* searchSuffolkWebsite returns.  After a database answer its text, if any,
\* is added, the notice is appended as above and the interaction is logged;
\* without policies the text with the web notice is the response, or the
\* fallback answer when there is none.
SearchReturns(k) ==
  /\ At(k, "search") \/ At(k, "websearch")
  /\ \E result \in SearchResults :
       LET useful == result.found /\ result.text # <<>>
       IN  IF handlers[k].pc = "search"
           THEN /\ calls' = Append(calls, Call(k, "insert", <<>>))
                /\ handlers' =
                     [handlers EXCEPT
                        ![k].pc = "insert",
                        ![k].answer =
                           WithDisclaimer(app,
                             IF useful
                             THEN Combined(handlers[k].answer, result.text)
                             ELSE handlers[k].answer)]
                /\ sent' = sent
           ELSE /\ sent' = Append(sent,
                     IF useful
                     THEN Reply(k, 200, TRUE,
                                   result.text \o WebDisclaimer, WebSource)
                     ELSE Reply(k, 200, TRUE, FallbackAnswer(app), <<>>))
                /\ handlers' = Goto(k, "done")
                /\ calls' = calls
  /\ UNCHANGED <<app, policiesTable, qaInteractions, proc,
                 cleanVars, summaryVars, extractVars, batchVars>>

\* The qa_interactions insert returns or throws (caught and logged): the
\* answer is sent with its sources.
InsertReturns(k) ==
  /\ At(k, "insert")
  /\ \E ok \in BOOLEAN :
       qaInteractions' = IF ok THEN Append(qaInteractions, handlers[k].answer)
                         ELSE qaInteractions
  /\ sent' = Append(sent, Reply(k, 200, TRUE, handlers[k].answer,
                                   Sources(handlers[k].rows)))
  /\ handlers' = Goto(k, "done")
  /\ UNCHANGED <<app, policiesTable, calls, proc,
                 cleanVars, summaryVars, extractVars, batchVars>>

NextAsk ==
  \/ Receive(1)
  \/ QueryThrows(1)
  \/ QueryReturns(1)
  \/ ClaudeThrows(1)
  \/ ClaudeReturns(1)
  \/ SearchReturns(1)
  \/ InsertReturns(1)

SpecAsk == InitAsk /\ [][NextAsk]_vars

(***************************************************************************)
(* C13                                                                     *)
(***************************************************************************)

\* A fetch, of a page or of a listing, fails.
FetchFails == FetchFailure \/ ListingFailure

\* The student-policies run has ended in the catch of scrapeAll, on the
\* failed fetch of its index page, before any policy page was requested.
IndexPageFailed ==
  /\ pc = "fatal"
  /\ driver = "student"
  /\ log = <<Get(START_URL, "links"), Got(START_URL, "links", FALSE)>>
  /\ fetched = <<>>

\* C13 as stated: in every batch driver a failed fetch, of a page or of the
\* index/listing page, adds no record and never aborts the run: every run
\* reaches its final count.
C13_NoFailedFetchAbortsTheBatch ==
  /\ [][FetchFails => UNCHANGED <<allPolicies, db>>]_vars
  /\ [](pc # "fatal")
  /\ <>(pc = "done")

\* C13, amended: a failed fetch adds no record; a failed fetch of a policy
\* page, of the library's or of the crawler's listing never aborts the run,
\* which reaches its final count; the only run that ends without its save
\* and count is the student-policies scraper's whose index page failed.
C13_OnlyTheIndexPageAborts ==
  /\ [][FetchFails => UNCHANGED <<allPolicies, db>>]_vars
  /\ [](pc = "fatal" => IndexPageFailed)
  /\ <>(pc = "done" \/ IndexPageFailed)

\* The crawler's start page failed, its links were read all the same, a
\* later page was scraped and saved, and the run reached its count.
C13_Witness ==
  /\ driver = "crawler"
  /\ pc = "done"
  /\ Len(fetched) >= 2
  /\ ~fetched[1].ok
  /\ fetched[2].ok
  /\ \E row \in db : row.last_updated = run /\ row.source_url # START_URL
  /\ Len(counts) = 1

(***************************************************************************)
(* C14                                                                     *)
(***************************************************************************)

IsPageGet(event) == event.e = "get" /\ event.what = "page"

\* The urls scrapePage was called on, in the order of the calls.
ScrapedUrls ==
  LET gets == SelectSeq(log, IsPageGet)
  IN  [i \in 1..Len(gets) |-> gets[i].url]

\* q begins with p.
StartsWith(q, p) == Len(p) <= Len(q) /\ SubSeq(q, 1, Len(p)) = p

\* The urls in the order they were supplied to a list-driven script: its
\* literal list, the links of the listing, the library's main page and then
\* the links of its listing.
Supplied ==
  CASE driver = "library" /\ phase = "list" -> <<START_URL>> \o urlsToVisit
    [] driver = "student" /\ pc \in {"links", "listing", "fatal"} -> <<>>
    [] OTHER -> urlsToVisit

\* The crawler's urls in the order of their first discovery: those scraped,
\* then those waiting.
Discovered == ScrapedUrls \o urlsToVisit

\* Every request but the last has its answer next to it in the log: a
\* request is issued only when none is in flight.
OneFetchInFlight ==
  \A i \in 1..Len(log) :
    log[i].e = "get" =>
      \/ i = Len(log) /\ pc \in {"fetching", "listing"}
      \/ /\ i < Len(log)
         /\ log[i + 1].e \in {"response", "error"}
         /\ log[i + 1].url = log[i].url
         /\ log[i + 1].what = log[i].what

IsPageAnswer(event) ==
  event.what = "page" /\ event.e \in {"response", "error"}

\* The place in the log of the answer to the k-th call of scrapePage.
AnswerAt(k) ==
  CHOOSE i \in 1..Len(log) :
    /\ IsPageAnswer(log[i])
    /\ Cardinality({j \in 1..i : IsPageAnswer(log[j])}) = k

\* The records the k-th call of scrapePage returned.
RecordsOf(k) ==
  IF fetched[k].ok
  THEN Scrape(driver, fetched[k].doc, log[AnswerAt(k)].url)
  ELSE <<>>

\* An upsert for a record of the url was issued at a place from a to b.
SavedBetween(url, a, b) ==
  \E i \in a..b : log[i].e = "save" /\ log[i].url = url

\* Every page that yielded a record had its upsert issued before the next
\* request, and before the final count.
SavedBeforeNextFetch ==
  \A k \in Handled :
    RecordsOf(k) # <<>> =>
      LET a == AnswerAt(k)
      IN  /\ \A i \in (a + 1)..Len(log) :
                log[i].e = "get" => SavedBetween(log[a].url, a + 1, i - 1)
          /\ pc \in {"counting", "done"} =>
                SavedBetween(log[a].url, a + 1, Len(log))

\* No upsert is issued while the loop runs, the records wait in allPolicies,
\* and once the loop is over every record has its upsert.
SavedAfterTheLoop ==
  /\ pc \in {"loop", "fetching", "delay"} =>
        /\ \A i \in 1..Len(log) : log[i].e # "save"
        /\ \A k \in Handled : \A r \in 1..Len(RecordsOf(k)) :
              \E n \in 1..Len(allPolicies) : allPolicies[n] = RecordsOf(k)[r]
  /\ pc \in {"counting", "done"} =>
        \A k \in Handled :
          RecordsOf(k) # <<>> =>
            SavedBetween(log[AnswerAt(k)].url, AnswerAt(k) + 1, Len(log))

\* C15 as stated: in every batch driver a page's record has its upsert
\* issued before the next url is fetched, and at most one record is
\* unsaved at any moment.
C15_PersistedBeforeNextFetch ==
  /\ SavedBeforeNextFetch
  /\ pc \in {"loop", "fetching", "delay"} => Len(allPolicies) <= 1

\* C15, amended: the crawler and the library scraper issue a page's upsert
\* before the next request; the list-driven scripts and the student-policies
\* scraper keep every record in allPolicies and issue the upserts after the
\* loop, before the count.
C15_PerPageOrAfterTheLoop ==
  /\ driver \in {"crawler", "library"} => SavedBeforeNextFetch
  /\ driver \in {"v2", "missing", "section", "student"} => SavedAfterTheLoop

\* The crawler scraped two pages and issued the upsert of each before its
\* next request.
C15_Witness ==
  /\ driver = "crawler"
  /\ pc = "done"
  /\ Len(fetched) = 2
  /\ RecordsOf(1) # <<>>
  /\ RecordsOf(2) # <<>>
  /\ Cardinality({i \in 1..Len(log) : log[i].e = "save"}) = 2

(***************************************************************************)
(* C16                                                                     *)
(***************************************************************************)

\* The timer ran at a place of the log from a to b.
DelayedBetween(a, b) == \E k \in a..b : log[k] = Timer

\* C16: between any two consecutive requests of a run the timer has run:
\* no request follows another, of a page or of a listing, without a delay.
C16_DelayBetweenAnyTwoFetches ==
  \A i, j \in 1..Len(log) :
    (i < j /\ log[i].e = "get" /\ log[j].e = "get") =>
      DelayedBetween(i + 1, j - 1)

(***************************************************************************)
(* C17                                                                     *)
(***************************************************************************)

\* At place j of the log a url is requested whose request failed at place i.
RequestedAgain(i, j) ==
  /\ i < j
  /\ log[i].e = "error"
  /\ log[j].e = "get"
  /\ log[j].url = log[i].url

\* How many times the list holds the url.
Occurrences(list, url) == Cardinality({n \in 1..Len(list) : list[n] = url})

\* C17 as stated: within a run, in any scraper, a url whose fetch has
\* failed is never requested again.
C17_FailedUrlNeverFetchedAgain ==
  \A i, j \in 1..Len(log) : ~RequestedAgain(i, j)

\* C17, amended: the scripts with a literal list never request a failed url
\* again.  The crawler requests it once more, at once, to read its links
\* (extractLinks after scrapePage), and never after that.  The library
\* scraper requests only its main page again: for the listing, and as a
\* page if the listing links to it.  The student-policies scraper requests
\* again a page that its index lists more than once.
C17_FailedUrlFetchedAgainOnlyFor ==
  \A i, j \in 1..Len(log) :
    RequestedAgain(i, j) =>
      CASE driver \in {"v2", "missing", "section"} -> FALSE
        [] driver = "crawler" ->
             /\ log[i].what = "page"
             /\ log[j].what = "links"
             /\ j = i + 1
        [] driver = "library" -> log[i].url = START_URL
        [] driver = "student" ->
             /\ log[i].what = "page"
             /\ log[j].what = "page"
             /\ Occurrences(urlsToVisit, log[i].url) > 1

\* The crawler's start page failed and was requested again for its links;
\* the page found there was scraped and the run reached its count.
C17_Witness ==
  /\ driver = "crawler"
  /\ pc = "done"
  /\ Len(log) > 3
  /\ log[2] = Got(START_URL, "page", FALSE)
  /\ log[3] = Get(START_URL, "links")
  /\ Len(fetched) = 2
  /\ fetched[2].ok

(***************************************************************************)
(* C18                                                                     *)
(***************************************************************************)

SummaryOf(v, stored) ==
  IF v \in {"student", "section"}
  THEN generateSummaryPeriod(stored, DefaultMaxLength)
  ELSE generateSummary(stored, DefaultMaxLength)

\* C19: a save over an existing row replaces its content, its summary and
\* its last_updated, so the stored summary of every row is the summary
\* derived from the content stored with it.
C19_StoredSummaryIsOfStoredContent ==
  \A row \in db : row.summary = SummaryOf(driver, row.content)

(***************************************************************************)
(* C20                                                                     *)
(***************************************************************************)

\* C20: a second run of the same script over unchanged pages reports the
\* row count the first run reported: every page maps to the external_id it
\* had, so every row the first run wrote is written again by the second
\* and none is added.
C20_RerunKeepsRowCount ==
  /\ Len(counts) = 2 => counts[2] = counts[1]
  /\ (pc = "done" /\ run = 2) =>
        \A row \in db : row.last_updated \in {0, 2}
  /\ \A r1, r2 \in db : r1.external_id = r2.external_id => r1 = r2

\* The second run of the crawler has ended with the two rows of the first
\* run written again, and each run counted two rows.
C20_Witness ==
  /\ driver = "crawler"
  /\ pc = "done"
  /\ run = 2
  /\ counts = <<2, 2>>
  /\ \A row \in db : row.last_updated = 2

(***************************************************************************)
(* C21                                                                     *)
(***************************************************************************)
\* The prompts of the model calls made so far.
Prompts == {calls[i] : i \in {j \in DOMAIN calls : calls[j].op = "claude"}}

\* The row of the table a prompt entry or a source was made from.
RowOf(id) == CHOOSE r \in policiesTable : r.id = id

InTable(id) == \E r \in policiesTable : r.id = id

\* The prompt's policies are active rows, no row twice, at most 15, latest
\* first, and no active row left out is later than one taken.
MostRecentActive(prompt) ==
  /\ Len(prompt) <= 15
  /\ \A i \in DOMAIN prompt :
       /\ InTable(prompt[i].id)
       /\ RowOf(prompt[i].id).is_active
       /\ prompt[i].n = i
       /\ \A j \in DOMAIN prompt :
            i < j =>
              /\ prompt[i].id # prompt[j].id
              /\ RowOf(prompt[i].id).last_updated
                   >= RowOf(prompt[j].id).last_updated
  /\ \A r \in policiesTable :
       r.is_active /\ (\A i \in DOMAIN prompt : prompt[i].id # r.id) =>
         /\ Len(prompt) = 15
         /\ \A i \in DOMAIN prompt :
              RowOf(prompt[i].id).last_updated >= r.last_updated

\* Each policy gives the first 1000 characters of its content, or all of a
\* shorter one.
ContentsCut(prompt) ==
  \A i \in DOMAIN prompt :
    LET whole == RowOf(prompt[i].id).content
    IN  /\ StrLen(prompt[i].content) <= 1000
        /\ StrLen(prompt[i].content) = Min({StrLen(whole), 1000})
        /\ prompt[i].title = RowOf(prompt[i].id).title
        /\ prompt[i].url = RowOf(prompt[i].id).source_url

\* The sources of a response are the first 5 policies of the prompt, or all
\* of fewer.
CitesFirstFive(response, prompt) ==
  /\ Len(response.sources) = Min({Len(prompt), 5})
  /\ \A i \in DOMAIN response.sources :
       /\ response.sources[i].id = prompt[i].id
       /\ response.sources[i].title = prompt[i].title
       /\ response.sources[i].url = prompt[i].url

\* C21: in server.js and part_001, the prompt sent to the language model is
\* built from at most 15 policies, all active and taken in descending
\* last_updated order, each giving at most 1000 characters of content, and
\* the sources of the response cite the first 5 of them at most.
C21_PromptFromLatestActivePolicies ==
  app \in {"server", "part_001"} =>
    /\ \A c \in Prompts :
         /\ MostRecentActive(c.prompt)
         /\ ContentsCut(c.prompt)
    /\ \A j \in DOMAIN sent :
         \A c \in Prompts :
           c.id = sent[j].id /\ sent[j].status = 200 =>
             CitesFirstFive(sent[j], c.prompt)

\* More than 15 active rows, contents over 1000 characters among the ones
\* taken, and the answer is sent with 5 sources.
C21_Witness ==
  /\ app = "server"
  /\ Cardinality({r \in policiesTable : r.is_active}) > 15
  /\ \E c \in Prompts :
       /\ Len(c.prompt) = 15
       /\ \E i \in DOMAIN c.prompt :
            StrLen(RowOf(c.prompt[i].id).content) > 1000
       /\ \E j \in DOMAIN sent :
            /\ sent[j].id = c.id
            /\ sent[j].status = 200
            /\ Len(sent[j].sources) = 5

(***************************************************************************)
(* C22                                                                     *)
(***************************************************************************)
Successes == {sent[j] : j \in {i \in DOMAIN sent : sent[i].status = 200}}

\* C22: every success response of POST /api/ask, on every branch and for any
\* text returned by the language model, has an answer that contains the
\* notice beginning with the warning sign followed by "Please note".
C22_EverySuccessAnswerCarriesTheNotice ==
  \A response \in Successes :
    /\ response.success
    /\ Includes(response.answer, <<WARN, NOTE>>)

(***************************************************************************)
(* C23                                                                     *)
(***************************************************************************)
\* The request made the call and the call threw: the handler went from the
\* call to its catch.
Threw(k, op) ==
  \E i \in DOMAIN calls :
    /\ calls[i].id = k
    /\ calls[i].op = op
    /\ i = Len(calls)
    /\ \E j \in DOMAIN sent : sent[j].id = k /\ sent[j].status = 500

ResponsesTo(k) == {j \in DOMAIN sent : sent[j].id = k}

\* C23: every POST /api/ask request to server.js receives exactly one
\* response: 400 when the question is missing or shorter than 5 characters,
\* 500 when the policies query or the primary language-model call (or
\* reading its result) throws, otherwise 200 with success true; a failure of
\* the web search or of the qa_interactions insert never makes it an error.
C23_OneResponsePerRequest ==
  app = "server" =>
    \A k \in DOMAIN handlers :
      /\ Cardinality(ResponsesTo(k)) <= 1
      /\ handlers[k].pc = "done" <=> Cardinality(ResponsesTo(k)) = 1
      /\ \A j \in ResponsesTo(k) :
           LET q == handlers[k].question
               missing == q.kind = "undefined"
                            \/ (q.kind = "string" /\ Length(q) < 5)
           IN  /\ sent[j].status = 400 <=> missing
               /\ sent[j].status = 500 <=>
                    ~missing /\ (Threw(k, "query") \/ Threw(k, "claude"))
               /\ sent[j].status \in {200, 400, 500}
               /\ sent[j].status = 200 => sent[j].success

(***************************************************************************)
(* C27                                                                     *)
(***************************************************************************)
\* The request was rejected by validation, or answered by the coursework
\* short-circuit.
ShortCircuited(k) ==
  \E j \in ResponsesTo(k) :
    \/ sent[j].status = 400
    \/ /\ sent[j].status = 200
       /\ handlers[k].question.kind = "string"
       /\ \E keyword \in {"solve", "homework", "assignment"} :
            QuestionIncludes(ToLowerCase(handlers[k].question), keyword)

\* C27: when POST /api/ask of server.js rejects a question by validation
\* (400) or answers it through the coursework short-circuit, no policies
\* query, model call, web search or qa_interactions insert is made for the
\* request, and the tables are as they were.
C27_ShortCircuitTouchesNothing ==
  app = "server" =>
    \A k \in DOMAIN handlers :
      ShortCircuited(k) =>
        /\ \A i \in DOMAIN calls : calls[i].id # k
        /\ qaInteractions = <<>>
        /\ \E n \in 0..MaxRows, act \in {"all", "odd", "none"},
              time \in {"rising", "pairs"} :
             policiesTable = TableOf(n, act, time)

\* A question with a coursework keyword in capitals, answered at once.
C27_Witness ==
  /\ app = "server"
  /\ handlers[1].question = String(<<"Hi", "reSOLVE">>)
  /\ policiesTable # {}
  /\ \E j \in ResponsesTo(1) :
       sent[j].status = 200 /\ sent[j].answer = CourseworkAnswer(app)

(***************************************************************************)
(* GET /admin/force-refresh-all, any number of them at once.  Each         *)
(* statement takes effect at one moment between its call and its return; a *)
(* handler's step is the statement it awaits taking effect and the code up *)
(* to the next await.  The table is the bag of the rows inserted: the id   *)
(* the sequence adds to a row is read by none of these handlers and is     *)
(* left out, so two rows of one external_id are two copies of one row.     *)
(***************************************************************************)
NumRequests == 2

\* const policies = [...]: the records of force-refresh-all, by position.
FixedPolicies == 8

FixedIds == 1..FixedPolicies

\* The external_id of initializeDatabase's sample policy.
SampleId == 0

\* A row as INSERT makes it: is_active by default.
NewRow(external_id) ==
  [external_id |-> external_id, title |-> external_id,
   content |-> X(external_id), source_url |-> external_id,
   is_active |-> TRUE]

\* No constraint.
NoConflict(rows, external_id) == FALSE

\* external_id VARCHAR(255) UNIQUE NOT NULL
Conflicts(rows, external_id) ==
  \E r \in BagToSet(rows) : r.external_id = external_id

\* The tables a request or a starting process can find: empty, the sample
\* policy of initializeDatabase, or the records of an earlier refresh, all
\* of them or the first ones of a refresh that stopped.
InitialTables ==
  {EmptyBag, SetToBag({NewRow(SampleId)})}
    \cup {SetToBag({NewRow(i) : i \in 1..n}) : n \in FixedIds}

Refresh ==
  [route |-> "refresh", pc |-> "received", step |-> 0]

ExternalIds(rows) == {r.external_id : r \in BagToSet(rows)}

InitRefresh ==
  /\ app = "server"
  /\ policiesTable \in InitialTables
  /\ qaInteractions = <<>>
  /\ handlers = [k \in 1..NumRequests |-> Refresh]
  /\ calls = <<>>
  /\ sent = <<>>
  /\ proc = "listening"
  /\ IdleClean
  /\ IdleSummary
  /\ IdleExtract
  /\ IdleBatch

\* await pool.query('DELETE FROM policies')
DeletePolicies(k) ==
  /\ At(k, "received")
  /\ handlers[k].route = "refresh"
  /\ policiesTable' = EmptyBag
  /\ handlers' = [handlers EXCEPT ![k].pc = "insert", ![k].step = 1]
  /\ UNCHANGED <<app, qaInteractions, calls, sent, proc,
                 cleanVars, summaryVars, extractVars, batchVars>>

\* for (const p of policies) await pool.query(INSERT ...): the insert of
\* the next record.  A unique violation is thrown into the handler's catch,
\* which responds 500.
InsertPolicy(k) ==
  /\ At(k, "insert")
  /\ IF Conflicts(policiesTable, handlers[k].step)
     THEN /\ sent' = Append(sent, [id |-> k, status |-> 500,
                                   success |-> FALSE])
          /\ handlers' = Goto(k, "done")
          /\ policiesTable' = policiesTable
     ELSE /\ policiesTable' =
               policiesTable (+) SetToBag({NewRow(handlers[k].step)})
          /\ handlers' =
               IF handlers[k].step = FixedPolicies
               THEN Goto(k, "count")
               ELSE [handlers EXCEPT ![k].step = @ + 1]
          /\ sent' = sent
  /\ UNCHANGED <<app, qaInteractions, calls, proc,
                 cleanVars, summaryVars, extractVars, batchVars>>

\* SELECT COUNT(*) FROM policies; res.json({success: true, ..., total})
CountPolicies(k) ==
  /\ At(k, "count")
  /\ sent' = Append(sent, [id |-> k, status |-> 200, success |-> TRUE,
                           total |-> BagCardinality(policiesTable)])
  /\ handlers' = Goto(k, "done")
  /\ UNCHANGED <<app, policiesTable, qaInteractions, calls, proc,
                 cleanVars, summaryVars, extractVars, batchVars>>

NextRefresh ==
  \/ \E k \in DOMAIN handlers : DeletePolicies(k)
  \/ \E k \in DOMAIN handlers : InsertPolicy(k)
  \/ \E k \in DOMAIN handlers : CountPolicies(k)

SpecRefresh == InitRefresh /\ [][NextRefresh]_vars

(***************************************************************************)
(* C25                                                                     *)
(***************************************************************************)
AllFinished == \A k \in DOMAIN handlers : handlers[k].pc = "done"

\* C25: once all concurrent force-refresh-all requests have finished, each
\* having completed or stopped at its first unique-constraint error, the
\* policies table holds exactly the 8 fixed records, each once, whatever it
\* held at the start.
C25_ExactlyTheFixedRecords ==
  AllFinished =>
    /\ BagCardinality(policiesTable) = 8
    /\ \A e \in 1..8 :
         \E r \in BagToSet(policiesTable) :
           r.external_id = e /\ CopiesIn(r, policiesTable) = 1

\* Requests interleaved: one stopped at a conflict after inserting records
\* of its own, one completed and counted 8.
C25_Witness ==
  /\ AllFinished
  /\ \E i, j \in DOMAIN sent :
       /\ i < j
       /\ sent[i].status = 200 /\ sent[i].total = 8
       /\ sent[j].status = 500

(***************************************************************************)
(* GET /api/policies next to a force-refresh-all.                          *)
(***************************************************************************)
\* before: the external_ids in the table when the requests arrive.
Policies(before) ==
  [route |-> "policies", pc |-> "received", before |-> before]

Reader == 2

InitRead ==
  /\ app = "server"
  /\ policiesTable \in InitialTables
  /\ qaInteractions = <<>>
  /\ handlers = <<Refresh, Policies(ExternalIds(policiesTable))>>
  /\ calls = <<>>
  /\ sent = <<>>
  /\ proc = "listening"
  /\ IdleClean
  /\ IdleSummary
  /\ IdleExtract
  /\ IdleBatch

\* GET /api/policies without a category: SELECT * FROM policies WHERE
\* is_active = true ORDER BY last_updated DESC LIMIT 50, answered with the
\* rows, or 500 when the query throws.
GetPolicies(k) ==
  /\ At(k, "received")
  /\ handlers[k].route = "policies"
  /\ \E ok \in BOOLEAN :
       sent' = Append(sent,
                 IF ok
                 THEN [id |-> k, status |-> 200, success |-> TRUE,
                       policies |->
                         {r.external_id :
                            r \in {o \in BagToSet(policiesTable) :
                                     o.is_active}}]
                 ELSE [id |-> k, status |-> 500, success |-> FALSE])
  /\ handlers' = Goto(k, "done")
  /\ UNCHANGED <<app, policiesTable, qaInteractions, calls, proc,
                 cleanVars, summaryVars, extractVars, batchVars>>

NextRead ==
  \/ DeletePolicies(1)
  \/ InsertPolicy(1)
  \/ CountPolicies(1)
  \/ GetPolicies(Reader)

SpecRead == InitRead /\ [][NextRead]_vars

(***************************************************************************)
(* C24                                                                     *)
(***************************************************************************)
\* The row sets the policies queries answered so far saw.
Observed ==
  {sent[j].policies :
     j \in {i \in DOMAIN sent : sent[i].id = Reader /\ sent[i].status = 200}}

\* C24: a policies query that runs while a force-refresh-all request runs
\* sees the complete set of before the refresh or the complete set of 8
\* policies after it, never an empty or partly refilled table.
C24_ReaderSeesWholeSet ==
  \A seen \in Observed : seen \in {handlers[Reader].before, 1..8}

(***************************************************************************)
(* Startup of server.js: initializeDatabase().then(listen).catch(exit).    *)
(* The handler of number 1 is initializeDatabase, at the query it awaits.  *)
(***************************************************************************)
\* The awaited queries of initializeDatabase: CREATE TABLE policies, two
\* CREATE INDEX, CREATE TABLE qa_interactions, the sample INSERT, the count.
InitQueries == 6

SampleInsert == 5

InitializeDatabase == [route |-> "init", pc |-> "query", step |-> 1]

\* The process listens whatever initializeDatabase did.
ListenAnyway(outcome) == "listening"

\* .then(() => app.listen(...)).catch((err) => process.exit(1))
Started(outcome) ==
  IF outcome = "resolved" THEN "listening" ELSE "exited 1"

\* The requests that can arrive.
Requests ==
  {Ask(q) : q \in Questions}
    \cup {Refresh, Policies(ExternalIds(policiesTable))}

\* The database the process finds: no rows (or no table yet), or the rows
\* an earlier process left.
InitStartup ==
  /\ app = "server"
  /\ policiesTable \in InitialTables
  /\ qaInteractions = <<>>
  /\ handlers = <<InitializeDatabase>>
  /\ calls = <<>>
  /\ sent = <<>>
  /\ proc = "starting"
  /\ IdleClean
  /\ IdleSummary
  /\ IdleExtract
  /\ IdleBatch

\* The awaited query returns.  The sample INSERT adds its row unless a row
\* of that external_id exists (ON CONFLICT DO NOTHING); after the count the
\* promise resolves and the then-callback calls app.listen.
InitQueryReturns ==
  /\ proc = "starting"
  /\ At(1, "query")
  /\ policiesTable' =
       IF handlers[1].step = SampleInsert
            /\ ~Conflicts(policiesTable, SampleId)
       THEN policiesTable (+) SetToBag({NewRow(SampleId)})
       ELSE policiesTable
  /\ IF handlers[1].step = InitQueries
     THEN /\ handlers' = Goto(1, "done")
          /\ proc' = Started("resolved")
     ELSE /\ handlers' = [handlers EXCEPT ![1].step = @ + 1]
          /\ proc' = proc
  /\ UNCHANGED <<app, qaInteractions, calls, sent,
                 cleanVars, summaryVars, extractVars, batchVars>>

\* The awaited query throws: initializeDatabase logs and rethrows, and the
\* catch-callback exits.
InitQueryThrows ==
  /\ proc = "starting"
  /\ At(1, "query")
  /\ handlers' = Goto(1, "threw")
  /\ proc' = Started("rejected")
  /\ UNCHANGED <<app, policiesTable, qaInteractions, calls, sent,
                 cleanVars, summaryVars, extractVars, batchVars>>

\* A request arrives at the listening process.
Accept ==
  /\ proc = "listening"
  /\ Len(handlers) = 1
  /\ \E request \in Requests : handlers' = Append(handlers, request)
  /\ UNCHANGED <<app, policiesTable, qaInteractions, calls, sent, proc,
                 cleanVars, summaryVars, extractVars, batchVars>>

NextStartup ==
  \/ InitQueryReturns
  \/ InitQueryThrows
  \/ Accept

SpecStartup == InitStartup /\ [][NextStartup]_vars

(***************************************************************************)
(* C26                                                                     *)
(***************************************************************************)
Initialized ==
  /\ handlers[1].pc = "done"
  /\ handlers[1].step = 6
  /\ \E r \in BagToSet(policiesTable) :
       r.external_id = SampleId /\ CopiesIn(r, policiesTable) = 1

RequestAccepted == \E k \in DOMAIN handlers : handlers[k].route # "init"

\* C26: server.js listens only after initializeDatabase has completed; if
\* an initialization query throws the process exits with code 1 and never
\* accepts a request.
C26_ListensOnlyAfterInit ==
  /\ proc = "listening" \/ RequestAccepted => Initialized
  /\ handlers[1].pc = "threw" => proc = "exited 1" /\ ~RequestAccepted
  /\ proc = "exited 1" => handlers[1].pc = "threw"

\* A request is accepted after an initialization that added the sample
\* policy to the rows of an earlier refresh.
C26_Witness ==
  /\ proc = "listening"
  /\ RequestAccepted
  /\ BagCardinality(policiesTable) = 9

==============================================================================
